---- MODULE Spec2Model ----
(***************************************************************************)
(* A model of srglib: renaming mappings between two namespaces of class,   *)
(* field and method identities.  The mutable builder (SimpleMappings), the *)
(* frozen snapshot (FrozenMappings: an Arc'd box holding the primary       *)
(* tables and a lazily filled inverse cell) and the composition algebra    *)
(* (chain, inverted, transform) are modelled from src/src/mappings.        *)
(***************************************************************************)
EXTENDS Integers, Sequences, FiniteSets, TLC

VARIABLES
    builder,    \* the SimpleMappings under construction
    boxes,      \* the heap of Arc<FrozenMappingsBox>, in allocation order
    snaps,      \* every FrozenMappings handle created so far (owner, view)
    pc,         \* position of the driving program
    readers,    \* per reader thread: its position inside inverted()
    history,    \* the set_* calls made on the builder so far (SpecBuild)
    call,       \* the last call of a pure operation: its arguments and result
    parse       \* a line processor at work: input left, its fields, its error

vars == <<builder, boxes, snaps, pc, readers, history, call, parse>>

\* no pure call made yet, no line processor at work
NoCall == [fn |-> "none"]
NoParse == [format |-> "none"]

(***************************************************************************)
(* Bounds of the model.                                                    *)
(***************************************************************************)
MaxEntries == 2       \* entries one builder may hold (Spec)
MaxSnaps == 3         \* FrozenMappings handles created in one run (Spec)
MaxChainEntries == 3  \* entries held by the three chained inputs together
NumReaders == 2       \* threads racing on one shared snapshot
MaxFreezeEntries == 3 \* entries the builder may hold (SpecFreeze)
MaxCalls == 3         \* set_* calls made on the builder (SpecBuild)
MaxEvalEntries == 2   \* entries of the mapping lookups are made on (SpecEval)
MaxPackageEntries == 2 \* entries of the mapping whose packages are rewritten
MaxRoundTripEntries == 2 \* entries of the mapping written and parsed back
MaxLines == 2         \* lines handed to parse_lines (SpecLines)
MaxTextLen == 5       \* characters of a descriptor text handed to a parser
MaxCompactLines == 3   \* member lines handed to the compact parser (SpecCompact)
MaxDimensions == 4     \* dimensions handed to ArrayType::new (SpecArray)
MaxFrameEntries == 1   \* entries the builder may hold (SpecFrame)
MaxFrameSnaps == 2     \* FrozenMappings handles created in one run (SpecFrame)
MaxIdentityEntries == 2 \* entries the builder may hold (SpecIdentity)
MaxIdentitySnaps == 4   \* FrozenMappings handles created in one run (SpecIdentity)
MaxCapacity == 2        \* largest capacity of an LruCache (SpecCache)
MaxCacheCalls == 3      \* calls made on one LruCache (SpecCache)

ClassNames == {"A", "B"}
FieldNames == {"f", "g"}
MethodNames == {"m", "n"}

(***************************************************************************)
(* Descriptor model (types.rs, descriptor.rs).  A ReferenceType is         *)
(* identified by its internal name: its descriptor is "L" name ";" and     *)
(* equality and hashing go through the descriptor.                         *)
(***************************************************************************)
Primitive(p) == [kind |-> "Primitive", prim |-> p, ref |-> "", dimensions |-> 0]
Reference(c) == [kind |-> "Reference", prim |-> "", ref |-> c, dimensions |-> 0]
\* ArrayType: a dimension count and a non-array element (prim or ref)
Array(d, e) == [kind |-> "Array", prim |-> e.prim, ref |-> e.ref, dimensions |-> d]

MethodSignature(ret, params) == [return_type |-> ret, parameter_types |-> params]
FieldData(name, declaring) == [name |-> name, declaring_type |-> declaring]
MethodData(name, declaring, sig) ==
    [name |-> name, declaring_type |-> declaring, signature |-> sig]

\* the signature ([LB;)LA; : one array-of-reference parameter, a reference result
Sig1 == MethodSignature(Reference("A"), <<Array(1, Reference("B"))>>)
Signatures == {Sig1}

FieldKeys == {FieldData(n, c) : n \in {"f"}, c \in ClassNames}
MethodKeys == {MethodData(n, c, s) : n \in {"m"}, c \in ClassNames, s \in Signatures}

(***************************************************************************)
(* FnvIndexMap: an insertion-ordered map, a sequence of <<key, value>>     *)
(* pairs with distinct keys.                                               *)
(***************************************************************************)
Keys(t) == {t[i][1] : i \in DOMAIN t}
Values(t) == {t[i][2] : i \in DOMAIN t}
Has(t, k) == \E i \in DOMAIN t : t[i][1] = k
Get(t, k) == t[CHOOSE i \in DOMAIN t : t[i][1] = k][2]
Entries(t) == {t[i] : i \in DOMAIN t}

\* IndexMap::insert: an existing key keeps its position and gets the new value
InsertAtEnd(t, k, v) == Append(SelectSeq(t, LAMBDA e : e[1] # k), <<k, v>>)
Insert(t, k, v) ==
    IF Has(t, k)
    THEN [i \in DOMAIN t |-> IF t[i][1] = k THEN <<k, v>> ELSE t[i]]
    ELSE Append(t, <<k, v>>)

\* FromIterator for IndexMap: insert the pairs one after the other
RECURSIVE CollectFrom(_, _)
CollectFrom(acc, pairs) ==
    IF pairs = <<>> THEN acc
    ELSE CollectFrom(Insert(acc, Head(pairs)[1], Head(pairs)[2]), Tail(pairs))
Collect(pairs) == CollectFrom(<<>>, pairs)

\* IndexMap::retain: keep the entries the predicate set accepts, in order
RECURSIVE Retain(_, _)
Retain(t, keep) ==
    IF t = <<>> THEN <<>>
    ELSE IF Head(t) \in keep THEN <<Head(t)>> \o Retain(Tail(t), keep)
    ELSE Retain(Tail(t), keep)

\* PartialEq for IndexMap: same length and every key bound to an equal value,
\* whatever the order
MapEq(t1, t2) ==
    /\ Len(t1) = Len(t2)
    /\ \A i \in DOMAIN t1 : Has(t2, t1[i][1]) /\ Get(t2, t1[i][1]) = t1[i][2]

(***************************************************************************)
(* MapClass / TypeTransformer (transformer.rs).  A class transformer is a  *)
(* class table; "returns nothing" is "has no entry".                       *)
(***************************************************************************)
\* TypeTransformer::maybe_remap_class for a class table, with the
\* unwrap_or_else(clone) of MapClass::transform_class
TransformRef(c, classes) == IF Has(classes, c) THEN Get(classes, c) ELSE c

\* JavaType::map_class on a TypeDescriptor: primitives never change, a
\* reference goes through the function, an array remaps its element and is
\* rebuilt with the same dimensions
TransformType(t, classes) ==
    IF t.kind = "Primitive" THEN t
    ELSE IF t.kind = "Reference" THEN Reference(TransformRef(t.ref, classes))
    ELSE IF t.prim # "" THEN t
    ELSE Array(t.dimensions, Reference(TransformRef(t.ref, classes)))

\* MethodSignature::raw_transform_class
TransformSignature(s, classes) ==
    MethodSignature(
        TransformType(s.return_type, classes),
        [i \in DOMAIN s.parameter_types |->
            TransformType(s.parameter_types[i], classes)])

\* MapClass for FieldData, through transform_class
TransformField(fd, classes) ==
    FieldData(fd.name, TransformRef(fd.declaring_type, classes))

\* MapClass for MethodData, through transform_class
TransformMethod(md, classes) ==
    MethodData(md.name,
               TransformRef(md.declaring_type, classes),
               TransformSignature(md.signature, classes))

(***************************************************************************)
(* The three tables of a mapping.  A builder keeps bare member names, a    *)
(* frozen mapping keeps the fully resolved renamed FieldData / MethodData. *)
(***************************************************************************)
Inner(classes, fields, methods) ==
    [classes |-> classes, fields |-> fields, methods |-> methods]
EmptyInner == Inner(<<>>, <<>>, <<>>)

\* SimpleMappings::default
EmptyBuilder == [classes |-> <<>>, field_names |-> <<>>, method_names |-> <<>>]

\* PartialEq for FrozenMappings: the derived equality of FrozenMappingsInner
InnerEqOrdered(m1, m2) == m1 = m2
InnerEq(m1, m2) ==
    /\ MapEq(m1.classes, m2.classes)
    /\ MapEq(m1.fields, m2.fields)
    /\ MapEq(m1.methods, m2.methods)

(***************************************************************************)
(* Mappings (mod.rs), read on the tables of a frozen mapping.              *)
(***************************************************************************)
remap_class(m, c) == IF Has(m.classes, c) THEN Get(m.classes, c) ELSE c

remap_field_no_fallback(m, fd) ==
    IF Has(m.fields, fd) THEN Get(m.fields, fd) ELSE fd
remap_field(m, fd) ==
    IF Has(m.fields, fd) THEN Get(m.fields, fd)
    ELSE TransformField(fd, m.classes)

remap_method(m, md) ==
    IF Has(m.methods, md) THEN Get(m.methods, md)
    ELSE TransformMethod(md, m.classes)

(***************************************************************************)
(* FrozenMappings constructors (frozen.rs).                                *)
(***************************************************************************)
\* the field closure of FrozenMappings::new: the renamed side is the
\* original pushed through the class table, with the stored name
NewFieldStale(first, name, classes) == FieldData(name, first.declaring_type)
NewField(first, name, classes) ==
    [TransformField(first, classes) EXCEPT !.name = name]

NewMethodStale(first, name, classes) ==
    MethodData(name, TransformRef(first.declaring_type, classes), first.signature)
NewMethod(first, name, classes) ==
    [TransformMethod(first, classes) EXCEPT !.name = name]

\* FrozenMappings::new / new_ref: the primary tables built from a class
\* table and two tables of bare member names
new(classes, fields, methods) ==
    LET cl == Collect(classes)
    IN Inner(cl,
             Collect([i \in DOMAIN fields |->
                 <<fields[i][1], NewField(fields[i][1], fields[i][2], cl)>>]),
             Collect([i \in DOMAIN methods |->
                 <<methods[i][1], NewMethod(methods[i][1], methods[i][2], cl)>>]))

\* SimpleMappings::frozen
BuilderFrozen(b) == new(b.classes, b.field_names, b.method_names)

\* FrozenMappingsInner::inverted: every table collected with its pairs swapped
SwapPairs(t) == [i \in DOMAIN t |-> <<t[i][2], t[i][1]>>]
InnerInvertedFirstWins(m) ==
    LET rev(t) == [i \in DOMAIN t |-> t[Len(t) + 1 - i]]
        firstWins(t) == rev(Collect(rev(SwapPairs(t))))
    IN Inner(firstWins(m.classes), firstWins(m.fields), firstWins(m.methods))
InnerInverted(m) ==
    Inner(Collect(SwapPairs(m.classes)),
          Collect(SwapPairs(m.fields)),
          Collect(SwapPairs(m.methods)))

(***************************************************************************)
(* FrozenMappings::chain on tables: self, self.inverted() and the mapping  *)
(* chained onto it.                                                        *)
(***************************************************************************)
\* the entries of the chained mapping whose original is no output of self
NetNewUnfiltered(t, inv) == t
NetNew(t, inv) == SelectSeq(t, LAMBDA e : ~Has(inv, e[1]))

ChainClassesByOriginal(self, inv, mapping) ==
    Collect(NetNew(mapping.classes, inv.classes)
            \o [i \in DOMAIN self.classes |->
                  <<self.classes[i][1], remap_class(mapping, self.classes[i][1])>>])
ChainClasses(self, inv, mapping) ==
    Collect(NetNew(mapping.classes, inv.classes)
            \o [i \in DOMAIN self.classes |->
                  <<self.classes[i][1], remap_class(mapping, self.classes[i][2])>>])

\* a net-new member key is rewritten to the oldest class names known
OldestFieldKeyRaw(fd, inv) == fd
OldestFieldKey(fd, inv) == TransformField(fd, inv.classes)
OldestMethodKeyDeclaringOnly(md, inv) ==
    MethodData(md.name, TransformRef(md.declaring_type, inv.classes), md.signature)
OldestMethodKey(md, inv) == TransformMethod(md, inv.classes)

ChainFieldsOnlyPushed(self, inv, mapping) ==
    Collect([i \in DOMAIN self.fields |->
               <<self.fields[i][1], remap_field(mapping, self.fields[i][2])>>])
ChainFields(self, inv, mapping) ==
    LET fresh == NetNew(mapping.fields, inv.fields)
    IN Collect([i \in DOMAIN fresh |-> <<OldestFieldKey(fresh[i][1], inv), fresh[i][2]>>]
               \o [i \in DOMAIN self.fields |->
                     <<self.fields[i][1], remap_field(mapping, self.fields[i][2])>>])

ChainMethods(self, inv, mapping) ==
    LET fresh == NetNew(mapping.methods, inv.methods)
    IN Collect([i \in DOMAIN fresh |-> <<OldestMethodKey(fresh[i][1], inv), fresh[i][2]>>]
               \o [i \in DOMAIN self.methods |->
                     <<self.methods[i][1], remap_method(mapping, self.methods[i][2])>>])

ChainNoPushThrough(self, inv, mapping) ==
    Inner(Collect(NetNew(mapping.classes, inv.classes) \o self.classes),
          ChainFields(self, inv, mapping),
          ChainMethods(self, inv, mapping))
Chain(self, inv, mapping) ==
    Inner(ChainClasses(self, inv, mapping),
          ChainFields(self, inv, mapping),
          ChainMethods(self, inv, mapping))

(***************************************************************************)
(* The heap: a FrozenMappingsBox owns the primary tables and the lazily    *)
(* filled inverse cell (AtomicLazyCell: NONE, LOCK while a fill is under   *)
(* way, SOME).  A FrozenMappings handle is an ArcRef: an owner and a       *)
(* reference to the owner's primary tables or to its filled inverse.       *)
(***************************************************************************)
\* FrozenMappings::new_raw: the box as allocated, inverse cell empty
new_raw(primary) == [primary |-> primary, state |-> "NONE", inner |-> EmptyInner]

\* a handle; op, a and b record how it was produced
Handle(owner, view, op, a, b) ==
    [owner |-> owner, view |-> view, op |-> op, a |-> a, b |-> b]

\* the tables a handle dereferences to
TablesIn(bx, s) ==
    IF s.view = "primary" THEN bx[s.owner].primary ELSE bx[s.owner].inner
Tables(s) == TablesIn(boxes, s)

\* FrozenMappingsBox::inverted run by a single thread: the cell is filled
\* from the primary tables unless it already holds a value
BoxInvertedInPlace(bx) ==
    [bx EXCEPT !.state = "SOME", !.inner = bx.primary,
               !.primary = InnerInverted(bx.primary)]
BoxInvertedUnfilled(bx) == bx
BoxInverted(bx) ==
    IF bx.state = "SOME" THEN bx
    ELSE [bx EXCEPT !.state = "SOME", !.inner = InnerInverted(bx.primary)]

\* FrozenMappings::inverted: the view of the new handle
InvertedViewRecompute(s) == "inverted"
InvertedView(s) == IF s.view = "primary" THEN "inverted" ELSE "primary"

\* the heap after FrozenMappings::inverted on handle s
HeapAfterInverted(bx, s) ==
    IF s.view = "primary" THEN [bx EXCEPT ![s.owner] = BoxInverted(bx[s.owner])]
    ELSE bx

(***************************************************************************)
(* MutableMappings for SimpleMappings (simple.rs).                         *)
(***************************************************************************)
BuilderSize(b) == Len(b.classes) + Len(b.field_names) + Len(b.method_names)
InnerSize(m) == Len(m.classes) + Len(m.fields) + Len(m.methods)

RECURSIVE FrozenSize(_)
FrozenSize(bx) ==
    IF bx = <<>> THEN 0 ELSE InnerSize(Head(bx).primary) + FrozenSize(Tail(bx))

\* the phases of the driving program in which a builder is being filled:
\* "build" (Spec), "solo" (SpecFreeze), "calls" (SpecBuild), "eval"
\* (SpecEval), "pkg" (SpecPackages), "rt" (SpecRoundTrip), "first",
\* "second", "third" (SpecChain), "frame" (SpecFrame, where the builder is
\* used on after it was frozen), "identity" (SpecIdentity)
BuildPhases ==
    {"build", "solo", "calls", "eval", "pkg", "rt", "first", "second", "third",
     "frame", "identity"}

\* the size the bounds allow a builder to reach
WithinBudget(b) ==
    IF pc = "build" THEN BuilderSize(b) <= MaxEntries
    ELSE IF pc = "solo" THEN BuilderSize(b) <= MaxFreezeEntries
    ELSE IF pc = "calls" THEN Len(history) < MaxCalls
    ELSE IF pc = "eval" THEN BuilderSize(b) <= MaxEvalEntries
    ELSE IF pc = "pkg" THEN BuilderSize(b) <= MaxPackageEntries
    ELSE IF pc = "rt" THEN BuilderSize(b) <= MaxRoundTripEntries
    ELSE IF pc = "frame" THEN BuilderSize(b) <= MaxFrameEntries
    ELSE IF pc = "identity" THEN BuilderSize(b) <= MaxIdentityEntries
    ELSE BuilderSize(b) + FrozenSize(boxes) <= MaxChainEntries

set_remapped_class(original, renamed) ==
    /\ pc \in BuildPhases
    /\ LET b == [builder EXCEPT !.classes = Insert(@, original, renamed)]
       IN /\ WithinBudget(b)
          /\ b # builder \/ pc = "calls"
          /\ builder' = b
    /\ history' = IF pc = "calls"
                  THEN Append(history, <<"class", original, renamed>>)
                  ELSE history
    /\ UNCHANGED <<boxes, snaps, pc, readers, call, parse>>

set_field_name(original, renamed) ==
    /\ pc \in BuildPhases
    /\ LET b == [builder EXCEPT !.field_names = Insert(@, original, renamed)]
       IN /\ WithinBudget(b)
          /\ b # builder \/ pc = "calls"
          /\ builder' = b
    /\ history' = IF pc = "calls"
                  THEN Append(history, <<"field", original, renamed>>)
                  ELSE history
    /\ UNCHANGED <<boxes, snaps, pc, readers, call, parse>>

set_method_name(original, renamed) ==
    /\ pc \in BuildPhases
    /\ LET b == [builder EXCEPT !.method_names = Insert(@, original, renamed)]
       IN /\ WithinBudget(b)
          /\ b # builder \/ pc = "calls"
          /\ builder' = b
    /\ history' = IF pc = "calls"
                  THEN Append(history, <<"method", original, renamed>>)
                  ELSE history
    /\ UNCHANGED <<boxes, snaps, pc, readers, call, parse>>

retain_classes ==
    /\ pc \in BuildPhases
    /\ \E keep \in SUBSET Entries(builder.classes) :
          /\ keep # Entries(builder.classes)
          /\ builder' = [builder EXCEPT !.classes = Retain(@, keep)]
    /\ UNCHANGED <<boxes, snaps, pc, readers, history, call, parse>>

retain_fields ==
    /\ pc \in BuildPhases
    /\ \E keep \in SUBSET Entries(builder.field_names) :
          /\ keep # Entries(builder.field_names)
          /\ builder' = [builder EXCEPT !.field_names = Retain(@, keep)]
    /\ UNCHANGED <<boxes, snaps, pc, readers, history, call, parse>>

retain_methods ==
    /\ pc \in BuildPhases
    /\ \E keep \in SUBSET Entries(builder.method_names) :
          /\ keep # Entries(builder.method_names)
          /\ builder' = [builder EXCEPT !.method_names = Retain(@, keep)]
    /\ UNCHANGED <<boxes, snaps, pc, readers, history, call, parse>>

clear_classes ==
    /\ pc \in BuildPhases
    /\ builder.classes # <<>>
    /\ builder' = [builder EXCEPT !.classes = <<>>]
    /\ UNCHANGED <<boxes, snaps, pc, readers, history, call, parse>>

clear_fields ==
    /\ pc \in BuildPhases
    /\ builder.field_names # <<>>
    /\ builder' = [builder EXCEPT !.field_names = <<>>]
    /\ UNCHANGED <<boxes, snaps, pc, readers, history, call, parse>>

clear_methods ==
    /\ pc \in BuildPhases
    /\ builder.method_names # <<>>
    /\ builder' = [builder EXCEPT !.method_names = <<>>]
    /\ UNCHANGED <<boxes, snaps, pc, readers, history, call, parse>>

(***************************************************************************)
(* Operations that create FrozenMappings handles.                          *)
(***************************************************************************)
\* SimpleMappings::frozen
AfterFrozen ==
    [build |-> "frozen", solo |-> "solo_done", calls |-> "calls_done",
     eval |-> "eval_frozen", pkg |-> "pkg_frozen",
     rt |-> "rt_frozen", first |-> "first_done",
     second |-> "second_done", third |-> "chain", frame |-> "frame",
     identity |-> "identity_frozen"]

\* the handles the bounds allow: one more may be made from a handle
MoreSnaps ==
    \/ pc = "frozen" /\ Len(snaps) < MaxSnaps
    \/ pc = "frame" /\ snaps # <<>> /\ Len(snaps) < MaxFrameSnaps
    \/ pc = "identity_frozen" /\ Len(snaps) < MaxIdentitySnaps

frozen ==
    /\ pc \in BuildPhases
    /\ pc = "frame" => snaps = <<>>
    /\ boxes' = Append(boxes, new_raw(BuilderFrozen(builder)))
    /\ snaps' = Append(snaps, Handle(Len(boxes) + 1, "primary", "frozen", 0, 0))
    /\ pc' = AfterFrozen[pc]
    /\ UNCHANGED <<builder, readers, history, call, parse>>

\* SimpleMappings::default: the next input is built in a new builder
new_builder ==
    /\ pc \in {"first_done", "second_done"}
    /\ builder' = EmptyBuilder
    /\ pc' = IF pc = "first_done" THEN "second" ELSE "third"
    /\ UNCHANGED <<boxes, snaps, readers, history, call, parse>>

\* Clone for FrozenMappings (and FrozenMappings::frozen): a second handle
\* on the same owner and view
clone(i) ==
    /\ MoreSnaps
    /\ snaps' = Append(snaps, Handle(snaps[i].owner, snaps[i].view, "clone", i, 0))
    /\ UNCHANGED <<builder, boxes, pc, readers, history, call, parse>>

\* Mappings::inverted for FrozenMappings
inverted(i) ==
    /\ MoreSnaps
    /\ boxes' = HeapAfterInverted(boxes, snaps[i])
    /\ snaps' = Append(snaps,
           Handle(snaps[i].owner, InvertedView(snaps[i]), "inverted", i, 0))
    /\ UNCHANGED <<builder, pc, readers, history, call, parse>>

\* FrozenMappings::chain: self.inverted() fills self's inverse cell, the
\* result is a fresh box
ChainResult(bx, first, second) ==
    LET heap == HeapAfterInverted(bx, first)
        inv == TablesIn(heap, [first EXCEPT !.view = InvertedView(first)])
    IN Chain(TablesIn(heap, first), inv, TablesIn(heap, second))

\* SpecChain chains its three inputs a, b, c (handles 1, 2, 3) both ways:
\* ab = a.chain(b), ab.chain(c), bc = b.chain(c), a.chain(bc)
ChainScript == [n \in 3..6 |->
    IF n = 3 THEN <<1, 2>> ELSE IF n = 4 THEN <<4, 3>>
    ELSE IF n = 5 THEN <<2, 3>> ELSE <<1, 6>>]

chain(i, j) ==
    /\ \/ MoreSnaps
       \/ pc = "chain" /\ Len(snaps) \in DOMAIN ChainScript
                       /\ <<i, j>> = ChainScript[Len(snaps)]
    /\ LET heap == HeapAfterInverted(boxes, snaps[i])
       IN boxes' = Append(heap, new_raw(ChainResult(boxes, snaps[i], snaps[j])))
    /\ snaps' = Append(snaps, Handle(Len(boxes) + 1, "primary", "chain", i, j))
    /\ UNCHANGED <<builder, pc, readers, history, call, parse>>

(***************************************************************************)
(* transform (transformer.rs): a MappingsTransformer is either a Mappings  *)
(* (its three lookups) or one of the closure wrappers, which answer from   *)
(* the class name or the member name alone.                                *)
(***************************************************************************)
FuncTransformer(classes, fields, methods) ==
    [kind |-> "func", classes |-> classes, fields |-> fields, methods |-> methods]
MappingsTransformer(m) ==
    [kind |-> "mappings", classes |-> m.classes, fields |-> m.fields,
     methods |-> m.methods]

\* internal names written out character by character, for the operations
\* that take them apart
rfind(name, ch) ==
    IF \E i \in DOMAIN name : name[i] = ch
    THEN CHOOSE i \in DOMAIN name :
            name[i] = ch /\ \A j \in DOMAIN name : name[j] = ch => j <= i
    ELSE 0
\* ReferenceType::split_name: <<package, simple name>>
split_name(name) ==
    LET package_separator == rfind(name, "/")
    IN IF package_separator > 0
       THEN <<SubSeq(name, 1, package_separator - 1),
              SubSeq(name, package_separator + 1, Len(name))>>
       ELSE <<<<>>, name>>
\* ReferenceType::from_internal_name: defined on names without '.'
ValidInternalName(name) == \A i \in DOMAIN name : name[i] # "."
from_internal_name(name) == name

\* the closure transform_packages hands to transform_classes; func is a
\* table from package to package
PackageRenamedAlwaysSlash(func, t) ==
    IF Has(func, split_name(t)[1])
    THEN from_internal_name((Get(func, split_name(t)[1]) \o <<"/">>) \o split_name(t)[2])
    ELSE t
PackageRenamed(func, t) ==
    LET package_name == split_name(t)[1]
        simple_name == split_name(t)[2]
    IN IF Has(func, package_name)
       THEN LET updated_package == Get(func, package_name)
            IN from_internal_name(
                  (IF updated_package # <<>> THEN updated_package \o <<"/">>
                   ELSE <<>>) \o simple_name)
       ELSE t
PackageTransformer(func) ==
    [kind |-> "packages", classes |-> func, fields |-> <<>>, methods |-> <<>>]

\* transformer.transform_class(renamed).unwrap_or_else(|| renamed.clone())
TransformedClass(t, renamed) ==
    IF t.kind = "packages" THEN PackageRenamed(t.classes, renamed)
    ELSE TransformRef(renamed, t.classes)

\* transformer.rename_field(renamed).unwrap_or_else(|| renamed.name.clone())
RenamedField(t, renamed) ==
    IF t.kind = "mappings"
    THEN IF Has(t.fields, renamed) THEN Get(t.fields, renamed).name ELSE renamed.name
    ELSE IF Has(t.fields, renamed.name) THEN Get(t.fields, renamed.name)
    ELSE renamed.name

\* transformer.rename_method(renamed).unwrap_or_else(|| renamed.name.clone())
RenamedMethod(t, renamed) ==
    IF t.kind = "mappings"
    THEN IF Has(t.methods, renamed) THEN Get(t.methods, renamed).name ELSE renamed.name
    ELSE IF Has(t.methods, renamed.name) THEN Get(t.methods, renamed.name)
    ELSE renamed.name

TransformOnlyRenamed(m, t) ==
    new(SelectSeq([i \in DOMAIN m.classes |->
                     <<m.classes[i][1], TransformedClass(t, m.classes[i][2])>>],
                  LAMBDA e : e[1] # e[2]),
        [i \in DOMAIN m.fields |->
            <<m.fields[i][1], RenamedField(t, m.fields[i][2])>>],
        [i \in DOMAIN m.methods |->
            <<m.methods[i][1], RenamedMethod(t, m.methods[i][2])>>])
\* transform on the tables of a frozen mapping
Transform(m, t) ==
    new([i \in DOMAIN m.classes |->
            <<m.classes[i][1], TransformedClass(t, m.classes[i][2])>>],
        [i \in DOMAIN m.fields |->
            <<m.fields[i][1], RenamedField(t, m.fields[i][2])>>],
        [i \in DOMAIN m.methods |->
            <<m.methods[i][1], RenamedMethod(t, m.methods[i][2])>>])

\* the closure transformers tried: a class function, a field renamer, a
\* method renamer
Closures ==
    { FuncTransformer(<<<<"B", "A">>>>, <<>>, <<>>),
      FuncTransformer(<<>>, <<<<"g", "f">>>>, <<>>),
      FuncTransformer(<<>>, <<>>, <<<<"n", "m">>>>) }

\* IterableMappings::transform on handle i with transformer t
transform(i, t) ==
    /\ MoreSnaps
    /\ boxes' = Append(boxes, new_raw(Transform(Tables(snaps[i]), t)))
    /\ snaps' = Append(snaps, Handle(Len(boxes) + 1, "primary", "transform", i, t))
    /\ UNCHANGED <<builder, pc, readers, history, call, parse>>

(***************************************************************************)
(* Spec: one builder and the handles made from it.                         *)
(***************************************************************************)
Init ==
    /\ builder = EmptyBuilder
    /\ boxes = <<>>
    /\ snaps = <<>>
    /\ pc = "build"
    /\ readers = <<>>
    /\ history = <<>>
    /\ call = NoCall
    /\ parse = NoParse

Next ==
    \/ \E o \in ClassNames, r \in ClassNames : set_remapped_class(o, r)
    \/ \E o \in FieldKeys, r \in FieldNames : set_field_name(o, r)
    \/ \E o \in MethodKeys, r \in MethodNames : set_method_name(o, r)
    \/ retain_classes
    \/ retain_fields
    \/ retain_methods
    \/ clear_classes
    \/ clear_fields
    \/ clear_methods
    \/ frozen
    \/ \E i \in DOMAIN snaps : clone(i)
    \/ \E i \in DOMAIN snaps : inverted(i)
    \/ \E i \in DOMAIN snaps, j \in DOMAIN snaps : chain(i, j)
    \/ \E i \in DOMAIN snaps, t \in Closures : transform(i, t)
    \/ \E i \in DOMAIN snaps :
          transform(i, MappingsTransformer(Tables(snaps[1])))

Spec == Init /\ [][Next]_vars

(***************************************************************************)
(* SpecChain: three mappings a, b, c are built and frozen one after the    *)
(* other, then chained as (a.chain(b)).chain(c) and as a.chain(b.chain(c)).*)
(***************************************************************************)
InitChain ==
    /\ builder = EmptyBuilder
    /\ boxes = <<>>
    /\ snaps = <<>>
    /\ pc = "first"
    /\ readers = <<>>
    /\ history = <<>>
    /\ call = NoCall
    /\ parse = NoParse

NextChain ==
    \/ \E o \in ClassNames, r \in ClassNames : set_remapped_class(o, r)
    \/ \E o \in FieldKeys, r \in FieldNames : set_field_name(o, r)
    \/ \E o \in MethodKeys, r \in MethodNames : set_method_name(o, r)
    \/ frozen
    \/ new_builder
    \/ \E i \in DOMAIN snaps, j \in DOMAIN snaps : chain(i, j)

SpecChain == InitChain /\ [][NextChain]_vars

(***************************************************************************)
(* SpecFreeze: one builder is populated by a single writer and frozen once.*)
(***************************************************************************)
InitFreeze ==
    /\ builder = EmptyBuilder
    /\ boxes = <<>>
    /\ snaps = <<>>
    /\ pc = "solo"
    /\ readers = <<>>
    /\ history = <<>>
    /\ call = NoCall
    /\ parse = NoParse

NextFreeze ==
    \/ \E o \in ClassNames, r \in ClassNames : set_remapped_class(o, r)
    \/ \E o \in FieldKeys, r \in FieldNames : set_field_name(o, r)
    \/ \E o \in MethodKeys, r \in MethodNames : set_method_name(o, r)
    \/ retain_classes
    \/ retain_fields
    \/ retain_methods
    \/ clear_classes
    \/ clear_fields
    \/ clear_methods
    \/ frozen

SpecFreeze == InitFreeze /\ [][NextFreeze]_vars

(***************************************************************************)
(* SpecBuild: a single writer makes up to MaxCalls set_* calls on a fresh  *)
(* builder; history records the calls in the order they were made.         *)
(***************************************************************************)
InitBuild ==
    /\ builder = EmptyBuilder
    /\ boxes = <<>>
    /\ snaps = <<>>
    /\ pc = "calls"
    /\ readers = <<>>
    /\ history = <<>>
    /\ call = NoCall
    /\ parse = NoParse

NextBuild ==
    \/ \E o \in ClassNames, r \in ClassNames : set_remapped_class(o, r)
    \/ \E o \in FieldKeys, r \in FieldNames : set_field_name(o, r)
    \/ \E o \in MethodKeys, r \in MethodNames : set_method_name(o, r)

SpecBuild == InitBuild /\ [][NextBuild]_vars

(***************************************************************************)
(* SpecEval: lookups on a builder and on the snapshot frozen from it.  The *)
(* builder answers from its bare names and its current class table         *)
(* (simple.rs:15-40), the snapshot from its stored tables                  *)
(* (frozen.rs:207-223); remap_* are the provided methods of Mappings.      *)
(***************************************************************************)
\* the tables a SimpleMappings answers lookups with
BuilderTablesBareNames(b) ==
    Inner(b.classes,
          [i \in DOMAIN b.field_names |->
              <<b.field_names[i][1],
                FieldData(b.field_names[i][2], b.field_names[i][1].declaring_type)>>],
          [i \in DOMAIN b.method_names |->
              <<b.method_names[i][1],
                [b.method_names[i][1] EXCEPT !.name = b.method_names[i][2]]>>])
BuilderTables(b) ==
    Inner(b.classes,
          [i \in DOMAIN b.field_names |->
              <<b.field_names[i][1],
                FieldData(b.field_names[i][2],
                          TransformRef(b.field_names[i][1].declaring_type, b.classes))>>],
          [i \in DOMAIN b.method_names |->
              <<b.method_names[i][1],
                [TransformMethod(b.method_names[i][1], b.classes)
                    EXCEPT !.name = b.method_names[i][2]]>>])

\* the mapping a lookup is made on
Target(on) == IF on = "builder" THEN BuilderTables(builder) ELSE Tables(snaps[1])
Targets == {"builder", "snapshot"}

\* the keys looked up: member keys with either name, so that some never have
\* an entry
LookupFieldKeys == {FieldData(n, c) : n \in FieldNames, c \in ClassNames}
LookupMethodKeys ==
    {MethodData(n, c, sg) : n \in MethodNames, c \in ClassNames, sg \in Signatures}

Call(fn, on, arg, ret) == [fn |-> fn, on |-> on, arg |-> arg, ret |-> ret]

\* lookups are made once the builder is complete and frozen; frozen borrows
\* the builder, which stays usable
CanLookup(on) == pc = "eval_frozen" /\ on \in Targets

remap_class_call(on, k) ==
    /\ CanLookup(on)
    /\ call' = Call("remap_class", on, k, remap_class(Target(on), k))
    /\ UNCHANGED <<builder, boxes, snaps, pc, readers, history, parse>>

remap_field_call(on, k) ==
    /\ CanLookup(on)
    /\ call' = Call("remap_field", on, k, remap_field(Target(on), k))
    /\ UNCHANGED <<builder, boxes, snaps, pc, readers, history, parse>>

remap_method_call(on, k) ==
    /\ CanLookup(on)
    /\ call' = Call("remap_method", on, k, remap_method(Target(on), k))
    /\ UNCHANGED <<builder, boxes, snaps, pc, readers, history, parse>>

InitEval ==
    /\ builder = EmptyBuilder
    /\ boxes = <<>>
    /\ snaps = <<>>
    /\ pc = "eval"
    /\ readers = <<>>
    /\ history = <<>>
    /\ call = NoCall
    /\ parse = NoParse

NextEval ==
    \/ \E o \in ClassNames, r \in ClassNames : set_remapped_class(o, r)
    \/ \E o \in FieldKeys, r \in FieldNames : set_field_name(o, r)
    \/ \E o \in MethodKeys, r \in MethodNames : set_method_name(o, r)
    \/ frozen
    \/ \E on \in Targets, k \in ClassNames : remap_class_call(on, k)
    \/ \E on \in Targets, k \in LookupFieldKeys : remap_field_call(on, k)
    \/ \E on \in Targets, k \in LookupMethodKeys : remap_method_call(on, k)

SpecEval == InitEval /\ [][NextEval]_vars

(***************************************************************************)
(* SpecPackages: transform_packages on a mapping whose classes live in     *)
(* packages.  Class names are internal names written out as characters.    *)
(***************************************************************************)
PackagedNames == {<<"X">>, <<"p", "/", "X">>, <<"p", "/", "Y">>}
PackagedSignature ==
    MethodSignature(Reference(<<"p", "/", "X">>), <<Reference(<<"X">>)>>)
PackagedFieldKeys == {FieldData("f", c) : c \in PackagedNames}
PackagedMethodKeys ==
    {MethodData("m", c, PackagedSignature) : c \in {<<"X">>, <<"p", "/", "X">>}}

\* the package functions tried: default package to "q", "p" to the default
\* package, "p" to "q"
PackageFuncs ==
    { << <<<<>>, <<"q">>>> >>,
      << <<<<"p">>, <<>>>> >>,
      << <<<<"p">>, <<"q">>>> >> }

\* IterableMappings::transform_packages on handle i with the function func
transform_packages(i, func) ==
    /\ pc = "pkg_frozen"
    /\ Len(snaps) < MaxSnaps
    /\ boxes' = Append(boxes,
                       new_raw(Transform(Tables(snaps[i]), PackageTransformer(func))))
    /\ snaps' = Append(snaps,
                       Handle(Len(boxes) + 1, "primary", "transform_packages", i, func))
    /\ UNCHANGED <<builder, pc, readers, history, call, parse>>

InitPackages ==
    /\ builder = EmptyBuilder
    /\ boxes = <<>>
    /\ snaps = <<>>
    /\ pc = "pkg"
    /\ readers = <<>>
    /\ history = <<>>
    /\ call = NoCall
    /\ parse = NoParse

NextPackages ==
    \/ \E o \in PackagedNames, r \in PackagedNames : set_remapped_class(o, r)
    \/ \E o \in PackagedFieldKeys, r \in FieldNames : set_field_name(o, r)
    \/ \E o \in PackagedMethodKeys, r \in MethodNames : set_method_name(o, r)
    \/ frozen
    \/ \E i \in DOMAIN snaps, func \in PackageFuncs : transform_packages(i, func)

SpecPackages == InitPackages /\ [][NextPackages]_vars

(***************************************************************************)
(* Text (utils.rs, types.rs, descriptor.rs).  A text is a sequence of      *)
(* characters; a parser position is the number of characters consumed      *)
(* (SimpleParser::current_index).  A parse function returns Ok with the    *)
(* value and the new position, or Err with an index and an optional        *)
(* reason (SimpleParseError).                                              *)
(***************************************************************************)
None == <<>>
Some(x) == <<x>>

Ok(value, descriptor, pos) ==
    [ok |-> TRUE, value |-> value, descriptor |-> descriptor, pos |-> pos]
SimpleParseError(index, reason) == [ok |-> FALSE, index |-> index, reason |-> reason]

is_finished(text, pos) == pos >= Len(text)
\* SimpleParser::error
error(pos) == SimpleParseError(pos, None)
\* SimpleParser::peek().ok()
peek(text, pos) == IF is_finished(text, pos) THEN None ELSE Some(text[pos + 1])
\* SimpleParser::expect: the new position, or the error
expect(text, pos, expected) ==
    IF peek(text, pos) = Some(expected)
    THEN Ok(expected, <<expected>>, pos + 1)
    ELSE SimpleParseError(pos, Some(<<"Expected", expected, peek(text, pos)>>))
\* a predicate on characters: one of chars, or none of chars
Is(chars) == [chars |-> chars, negated |-> FALSE]
IsNot(chars) == [chars |-> chars, negated |-> TRUE]
Matches(func, c) == (c \in func.chars) # func.negated
\* SimpleParser::take_until: the position of the first character at or after
\* pos that satisfies func, or the end of the text
take_until(text, pos, func) ==
    IF \E i \in (pos + 1)..Len(text) : Matches(func, text[i])
    THEN (CHOOSE i \in (pos + 1)..Len(text) :
              /\ Matches(func, text[i])
              /\ \A j \in (pos + 1)..(i - 1) : ~Matches(func, text[j])) - 1
    ELSE Len(text)
\* SimpleParser::ensure_finished after a parse
ensure_finished(text, r) ==
    IF ~r.ok \/ is_finished(text, r.pos) THEN r ELSE error(r.pos)

\* PrimitiveType::descriptor_str and its inverse in SimpleParse for PrimitiveType
PrimitiveTypes ==
    { <<"B", "byte">>, <<"S", "short">>, <<"I", "int">>, <<"J", "long">>,
      <<"F", "float">>, <<"D", "double">>, <<"C", "char">>, <<"Z", "boolean">>,
      <<"V", "void">> }
descriptor_str(prim) == (CHOOSE e \in PrimitiveTypes : e[2] = prim)[1]

\* JavaType::descriptor of a type value
ArrayPrefix(dimensions) == [i \in 1..dimensions |-> "["]
Descriptor(t) ==
    IF t.kind = "Primitive" THEN <<descriptor_str(t.prim)>>
    ELSE IF t.kind = "Reference" THEN (<<"L">> \o t.ref) \o <<";">>
    ELSE ArrayPrefix(t.dimensions)
            \o (IF t.prim # "" THEN <<descriptor_str(t.prim)>>
                ELSE (<<"L">> \o t.ref) \o <<";">>)

RECURSIVE Concat(_)
Concat(ss) == IF ss = <<>> THEN <<>> ELSE Head(ss) \o Concat(Tail(ss))
\* MethodSignature::new: the descriptor built from the types
SignatureDescriptor(sg) ==
    ((<<"(">> \o Concat([i \in DOMAIN sg.parameter_types |->
                            Descriptor(sg.parameter_types[i])]))
        \o <<")">>) \o Descriptor(sg.return_type)

\* SimpleParse for PrimitiveType
ParsePrimitive(text, pos) ==
    IF is_finished(text, pos) THEN error(pos)
    ELSE IF \E e \in PrimitiveTypes : e[1] = text[pos + 1]
    THEN LET e == CHOOSE e \in PrimitiveTypes : e[1] = text[pos + 1]
         IN Ok(Primitive(e[2]), <<descriptor_str(e[2])>>, pos + 1)
    ELSE error(pos)

\* In the parsers below each intermediate result is bound once, as the
\* argument of a LET operator named after the step that follows it.

\* SimpleParse for ReferenceType: the descriptor is the slice consumed
ParseReference(text, pos) ==
    LET Closed(close) ==
            IF ~close.ok THEN close
            ELSE Ok(Reference(SubSeq(text, pos + 2, close.pos - 1)),
                    SubSeq(text, pos + 1, close.pos),
                    close.pos)
        Started(start) ==
            IF ~start.ok THEN start
            ELSE Closed(expect(text, take_until(text, start.pos, Is({".", ";"})), ";"))
    IN Started(expect(text, pos, "L"))

\* SimpleParse for ArrayType
ParseArray(text, pos) ==
    LET Element(dimensions, element_type) ==
            IF ~element_type.ok THEN element_type
            ELSE Ok(Array(dimensions, element_type.value),
                    SubSeq(text, pos + 1, element_type.pos),
                    element_type.pos)
        Dimensions(first, rest) ==
            Element(1 + (rest - first),
                    IF is_finished(text, rest) THEN error(rest)
                    ELSE IF text[rest + 1] = "L" THEN ParseReference(text, rest)
                    ELSE ParsePrimitive(text, rest))
        Opened(open) ==
            IF ~open.ok THEN open
            ELSE Dimensions(open.pos, take_until(text, open.pos, IsNot({"["})))
    IN Opened(expect(text, pos, "["))

\* SimpleParse for TypeDescriptor
ParseType(text, pos) ==
    IF is_finished(text, pos) THEN error(pos)
    ELSE IF text[pos + 1] = "L" THEN ParseReference(text, pos)
    ELSE IF text[pos + 1] = "[" THEN ParseArray(text, pos)
    ELSE ParsePrimitive(text, pos)

\* the loop of SimpleParse for MethodSignature: parameter types up to ')'
RECURSIVE ParseParameters(_, _, _)
ParseParameters(text, pos, parameter_types) ==
    LET Parameter(t) ==
            IF ~t.ok THEN t
            ELSE ParseParameters(text, t.pos, Append(parameter_types, t.value))
    IN IF is_finished(text, pos) THEN error(pos)
       ELSE IF text[pos + 1] = ")" THEN Ok(parameter_types, <<>>, pos)
       ELSE Parameter(ParseType(text, pos))

\* SimpleParse for MethodSignature
ParseSignature(text, pos) ==
    LET Returned(parameter_types, return_type) ==
            IF ~return_type.ok THEN return_type
            ELSE Ok(MethodSignature(return_type.value, parameter_types.value),
                    SubSeq(text, pos + 1, return_type.pos),
                    return_type.pos)
        Closed(parameter_types, close) ==
            IF ~close.ok THEN close
            ELSE Returned(parameter_types, ParseType(text, close.pos))
        Parameters(parameter_types) ==
            IF ~parameter_types.ok THEN parameter_types
            ELSE Closed(parameter_types, expect(text, parameter_types.pos, ")"))
        Opened(open) ==
            IF ~open.ok THEN open
            ELSE Parameters(ParseParameters(text, open.pos, <<>>))
    IN Opened(expect(text, pos, "("))

Parsers == {"PrimitiveType", "ReferenceType", "ArrayType", "TypeDescriptor",
            "MethodSignature"}
Parse(parser, text, pos) ==
    IF parser = "PrimitiveType" THEN ParsePrimitive(text, pos)
    ELSE IF parser = "ReferenceType" THEN ParseReference(text, pos)
    ELSE IF parser = "ArrayType" THEN ParseArray(text, pos)
    ELSE IF parser = "TypeDescriptor" THEN ParseType(text, pos)
    ELSE ParseSignature(text, pos)

\* SimpleParse::parse_text = parse_fully on a new parser
ParseTextPrefix(parser, text) == Parse(parser, text, 0)
ParseText(parser, text) == ensure_finished(text, Parse(parser, text, 0))

(***************************************************************************)
(* SpecDescriptor: every text of up to MaxTextLen characters is handed to  *)
(* each descriptor parser.  A class name may be any characters other than  *)
(* '.' and ';'.                                                            *)
(***************************************************************************)
DescriptorChars == {"L", ";", "[", "(", ")", "I", "."}
DescriptorTexts == UNION {[1..n -> DescriptorChars] : n \in 0..MaxTextLen}

\* the text the caller holds
Input(text) == [fn |-> "input", arg |-> text]

parse_text(parser) ==
    /\ pc = "text"
    /\ call.fn = "input"
    /\ call' = Call("parse_text", parser, call.arg, ParseText(parser, call.arg))
    /\ UNCHANGED <<builder, boxes, snaps, pc, readers, history, parse>>

InitDescriptor ==
    /\ builder = EmptyBuilder
    /\ boxes = <<>>
    /\ snaps = <<>>
    /\ pc = "text"
    /\ readers = <<>>
    /\ history = <<>>
    /\ call \in {Input(text) : text \in DescriptorTexts}
    /\ parse = NoParse

NextDescriptor == \E parser \in Parsers : parse_text(parser)

SpecDescriptor == InitDescriptor /\ [][NextDescriptor]_vars

(***************************************************************************)
(* SpecMapClass: MapClass::maybe_transform_class of FieldData, MethodData  *)
(* and MethodSignature, with a class table as the TypeTransformer.         *)
(***************************************************************************)
\* TypeTransformer::maybe_remap_class for a class table
maybe_remap_class(classes, original) ==
    IF Has(classes, original) THEN Some(Get(classes, original)) ELSE None

\* MapClass for FieldData
FieldMaybeTransformClass(fd, classes) ==
    IF maybe_remap_class(classes, fd.declaring_type) # None
    THEN Some(FieldData(fd.name, maybe_remap_class(classes, fd.declaring_type)[1]))
    ELSE None
\* MapClass for MethodData
MethodMaybeTransformClass(md, classes) ==
    Some(MethodData(md.name,
                    TransformRef(md.declaring_type, classes),
                    TransformSignature(md.signature, classes)))
\* MapClass for MethodSignature: TypeTransformer::remap_signature
SignatureMaybeTransformClass(sg, classes) == Some(TransformSignature(sg, classes))

MaybeTransformClass(type, value, classes) ==
    IF type = "FieldData" THEN FieldMaybeTransformClass(value, classes)
    ELSE IF type = "MethodData" THEN MethodMaybeTransformClass(value, classes)
    ELSE SignatureMaybeTransformClass(value, classes)

\* the values and class tables tried
PrimitiveSignature == MethodSignature(Primitive("void"), <<Primitive("int")>>)
MapClassSignatures == {Sig1, PrimitiveSignature}
MapClassValues ==
    {<<"FieldData", FieldData(n, c)>> : n \in FieldNames, c \in ClassNames}
    \cup {<<"MethodData", MethodData(n, c, sg)>> :
            n \in MethodNames, c \in ClassNames, sg \in MapClassSignatures}
    \cup {<<"MethodSignature", sg>> : sg \in MapClassSignatures}
MapClassTables ==
    {<<>>}
    \cup {<<<<o, r>>>> : o \in ClassNames, r \in ClassNames}
    \cup {<<<<"A", r1>>, <<"B", r2>>>> : r1 \in ClassNames, r2 \in ClassNames}

\* the receiver and the transformer the caller holds
MapClassInput(v, classes) ==
    [fn |-> "input", on |-> v[1], arg |-> v[2], classes |-> classes]

maybe_transform_class ==
    /\ pc = "map_class"
    /\ call.fn = "input"
    /\ call' = [fn |-> "maybe_transform_class", on |-> call.on, arg |-> call.arg,
                classes |-> call.classes,
                ret |-> MaybeTransformClass(call.on, call.arg, call.classes)]
    /\ UNCHANGED <<builder, boxes, snaps, pc, readers, history, parse>>

InitMapClass ==
    /\ builder = EmptyBuilder
    /\ boxes = <<>>
    /\ snaps = <<>>
    /\ pc = "map_class"
    /\ readers = <<>>
    /\ history = <<>>
    /\ call \in {MapClassInput(v, classes) : v \in MapClassValues, classes \in MapClassTables}
    /\ parse = NoParse

NextMapClass == maybe_transform_class

SpecMapClass == InitMapClass /\ [][NextMapClass]_vars

(***************************************************************************)
(* Line processors (format/srg.rs, csrg.rs, tsrg.rs).  parse_line returns  *)
(* the change it made to the processor and Ok or a SimpleParseError; the   *)
(* change is made before the rest of the line is checked.                  *)
(***************************************************************************)
Whitespace == {" ", "\t"}
\* SimpleParser::skip_whitespace: the new position
skip_whitespace(text, pos) == take_until(text, pos, IsNot(Whitespace))
\* SimpleParser::peek_str
peek_str(text, pos, size) ==
    IF pos + size <= Len(text)
    THEN Ok(SubSeq(text, pos + 1, pos + size), <<>>, pos)
    ELSE error(pos)
\* SimpleParser::expect_str
expect_str(text, pos, s) ==
    IF pos + Len(s) <= Len(text) /\ SubSeq(text, pos + 1, pos + Len(s)) = s
    THEN Ok(s, <<>>, pos + Len(s))
    ELSE error(pos)
\* str::find on a slice: the 0-based index of the first ch, or -1
find(s, ch) ==
    IF \E i \in DOMAIN s : s[i] = ch
    THEN (CHOOSE i \in DOMAIN s : s[i] = ch /\ \A j \in 1..(i - 1) : s[j] # ch) - 1
    ELSE -1
\* SimpleParser::parse_internal_name
parse_internal_name(text, pos) ==
    LET stop == take_until(text, pos, Is({" "}))
        s == SubSeq(text, pos + 1, stop)
    IN IF find(s, ".") >= 0
       THEN SimpleParseError(pos + find(s, "."), Some(<<"Invalid internal name", s>>))
       ELSE Ok(s, <<>>, stop)
\* remaining().split_whitespace().count()
split_whitespace_count(text, pos) ==
    Cardinality({i \in (pos + 1)..Len(text) :
                    /\ text[i] \notin Whitespace
                    /\ (i = pos + 1 \/ text[i - 1] \in Whitespace)})

\* SimpleParse for JoinedInternalName
ParseJoinedInternalName(text, pos) ==
    LET s == parse_internal_name(text, pos)
    IN IF ~s.ok THEN s
       ELSE IF rfind(s.value, "/") = 0
       THEN SimpleParseError(pos, Some(<<"Invalid joined name", s.value>>))
       ELSE Ok([declaring_type |->
                   from_internal_name(SubSeq(s.value, 1, rfind(s.value, "/") - 1)),
                name |-> SubSeq(s.value, rfind(s.value, "/") + 1, Len(s.value))],
               <<>>, s.pos)

\* the parser calls a branch of parse_line makes, in order; each `?` returns
\* the first error
ExpectStr(s) == [call |-> "expect_str", s |-> s]
Expect(c) == [call |-> "expect", c |-> c]
InternalName == [call |-> "parse_internal_name"]
JoinedInternalName == [call |-> "parse::<JoinedInternalName>"]
Signature == [call |-> "parse::<MethodSignature>"]
TakeUntilSpace == [call |-> "take_until"]

\* one call on the parser: Ok with what it returned, or the error
ParserCall(step, text, pos) ==
    IF step.call = "expect_str" THEN expect_str(text, pos, step.s)
    ELSE IF step.call = "expect" THEN expect(text, pos, step.c)
    ELSE IF step.call = "parse_internal_name" THEN parse_internal_name(text, pos)
    ELSE IF step.call = "parse::<JoinedInternalName>"
    THEN ParseJoinedInternalName(text, pos)
    ELSE IF step.call = "parse::<MethodSignature>" THEN ParseSignature(text, pos)
    ELSE LET TakenUntil(stop) == Ok(SubSeq(text, pos + 1, stop), <<>>, stop)
         IN TakenUntil(take_until(text, pos, Is({" "})))

\* the calls of a branch run from position pos: Ok with the values the
\* calls returned, or the first error
RECURSIVE ParserCalls(_, _, _, _)
ParserCalls(steps, text, pos, values) ==
    LET Then(r) ==
            IF ~r.ok THEN r
            ELSE ParserCalls(Tail(steps), text, r.pos, Append(values, r.value))
    IN IF steps = <<>> THEN Ok(values, <<>>, pos)
       ELSE Then(ParserCall(Head(steps), text, pos))

\* what a line did to the processor
NoEffect == [kind |-> "none"]
ClassEffect(original, renamed) ==
    [kind |-> "class", original |-> original, renamed |-> renamed]
FieldEffect(original, renamed) ==
    [kind |-> "field", original |-> original, renamed |-> renamed]
MethodEffect(original, renamed) ==
    [kind |-> "method", original |-> original, renamed |-> renamed]
PackageEffect(original, renamed) ==
    [kind |-> "package", original |-> original, renamed |-> renamed]
LineResult(effect, result) == [effect |-> effect, result |-> result]

\* the end of parse_line: the change is made, then skip_whitespace and
\* ensure_finished
EndOfLine(text, effect, pos) ==
    LineResult(effect, ensure_finished(text, Ok(<<>>, <<>>, skip_whitespace(text, pos))))

\* SrgLineProcessor::parse_line, the four kinds of line
SrgMethodLine(text, pos) ==
    LET Parsed(r) ==
            LET original_internal_name == r.value[2]
                original_signature == r.value[4]
                renamed_internal_name == r.value[6]
            IN IF ~r.ok THEN LineResult(NoEffect, r)
               ELSE EndOfLine(text,
                              MethodEffect(MethodData(original_internal_name.name,
                                                      original_internal_name.declaring_type,
                                                      original_signature),
                                           renamed_internal_name.name),
                              r.pos)
    IN Parsed(ParserCalls(<<ExpectStr(<<"M", "D", ":", " ">>), JoinedInternalName,
                       Expect(" "), Signature, Expect(" "), JoinedInternalName,
                       Expect(" "), Signature>>, text, pos, <<>>))
SrgFieldLine(text, pos) ==
    LET Parsed(r) ==
            LET original_internal_name == r.value[2]
                renamed_internal_name == r.value[4]
            IN IF ~r.ok THEN LineResult(NoEffect, r)
               ELSE EndOfLine(text,
                              FieldEffect(FieldData(original_internal_name.name,
                                                    original_internal_name.declaring_type),
                                          renamed_internal_name.name),
                              r.pos)
    IN Parsed(ParserCalls(<<ExpectStr(<<"F", "D", ":", " ">>), JoinedInternalName,
                       Expect(" "), JoinedInternalName>>, text, pos, <<>>))
SrgClassLine(text, pos) ==
    LET Parsed(r) ==
            IF ~r.ok THEN LineResult(NoEffect, r)
            ELSE EndOfLine(text,
                           ClassEffect(from_internal_name(r.value[2]),
                                       from_internal_name(r.value[4])),
                           r.pos)
    IN Parsed(ParserCalls(<<ExpectStr(<<"C", "L", ":", " ">>), InternalName,
                       Expect(" "), InternalName>>, text, pos, <<>>))
SrgPackageLine(text, pos) ==
    LET Parsed(r) ==
            IF ~r.ok THEN LineResult(NoEffect, r)
            ELSE EndOfLine(text,
                           \* "./" is the magic indicator for no package
                           PackageEffect(IF r.value[2] = <<".", "/">> THEN <<>>
                                         ELSE r.value[2],
                                         r.value[4]),
                           r.pos)
    IN Parsed(ParserCalls(<<ExpectStr(<<"P", "K", ":", " ">>), TakeUntilSpace,
                       Expect(" "), TakeUntilSpace>>, text, pos, <<>>))

\* SrgLineProcessor::parse_line
SrgParseLine(text) ==
    LET pos == skip_whitespace(text, 0)
        tag == peek_str(text, pos, 2)
    IN IF is_finished(text, pos) \/ text[pos + 1] = "#"
       THEN LineResult(NoEffect, Ok(<<>>, <<>>, pos))
       ELSE IF ~tag.ok THEN LineResult(NoEffect, tag)
       ELSE IF tag.value = <<"M", "D">> THEN SrgMethodLine(text, pos)
       ELSE IF tag.value = <<"F", "D">> THEN SrgFieldLine(text, pos)
       ELSE IF tag.value = <<"C", "L">> THEN SrgClassLine(text, pos)
       ELSE IF tag.value = <<"P", "K">> THEN SrgPackageLine(text, pos)
       ELSE LineResult(NoEffect, error(pos))

\* CompactSrgLineProcessor::parse_line, the three kinds of line
CompactMethodLineNoSignature(text, pos) ==
    LET Parsed(r) ==
            IF ~r.ok THEN LineResult(NoEffect, r)
            ELSE EndOfLine(text,
                           MethodEffect(MethodData(r.value[3],
                                                   from_internal_name(r.value[1]),
                                                   MethodSignature(Primitive("void"), <<>>)),
                                        r.value[7]),
                           r.pos)
    IN Parsed(ParserCalls(<<InternalName, Expect(" "), TakeUntilSpace, Expect(" "),
                       Signature, Expect(" "), TakeUntilSpace>>, text, pos, <<>>))
CompactMethodLine(text, pos) ==
    LET Parsed(r) ==
            IF ~r.ok THEN LineResult(NoEffect, r)
            ELSE EndOfLine(text,
                           MethodEffect(MethodData(r.value[3],
                                                   from_internal_name(r.value[1]),
                                                   r.value[5]),
                                        r.value[7]),
                           r.pos)
    IN Parsed(ParserCalls(<<InternalName, Expect(" "), TakeUntilSpace, Expect(" "),
                       Signature, Expect(" "), TakeUntilSpace>>, text, pos, <<>>))
CompactFieldLine(text, pos) ==
    LET Parsed(r) ==
            IF ~r.ok THEN LineResult(NoEffect, r)
            ELSE EndOfLine(text,
                           FieldEffect(FieldData(r.value[3], from_internal_name(r.value[1])),
                                       r.value[5]),
                           r.pos)
    IN Parsed(ParserCalls(<<InternalName, Expect(" "), TakeUntilSpace, Expect(" "),
                       TakeUntilSpace>>, text, pos, <<>>))
CompactClassLine(text, pos) ==
    LET Parsed(r) ==
            IF ~r.ok THEN LineResult(NoEffect, r)
            ELSE EndOfLine(text,
                           ClassEffect(from_internal_name(r.value[1]),
                                       from_internal_name(r.value[3])),
                           r.pos)
    IN Parsed(ParserCalls(<<InternalName, Expect(" "), InternalName>>, text, pos, <<>>))

\* CompactSrgLineProcessor::parse_line
CompactSrgParseLine(text) ==
    LET pos == skip_whitespace(text, 0)
        count == split_whitespace_count(text, pos)
    IN IF is_finished(text, pos) \/ text[pos + 1] = "#"
       THEN LineResult(NoEffect, Ok(<<>>, <<>>, pos))
       ELSE IF count = 4 THEN CompactMethodLine(text, pos)
       ELSE IF count = 3 THEN CompactFieldLine(text, pos)
       ELSE IF count = 2 THEN CompactClassLine(text, pos)
       ELSE LineResult(NoEffect, error(pos))

\* TabSrgLineProcessor::parse_line, the three kinds of line; a class line
\* returns without looking at the rest of the line
TabClassLine(text) ==
    LET Parsed(r) ==
            IF ~r.ok THEN LineResult(NoEffect, r)
            ELSE LineResult(ClassEffect(from_internal_name(r.value[1]),
                                        from_internal_name(r.value[3])),
                            Ok(<<>>, <<>>, r.pos))
    IN Parsed(ParserCalls(<<InternalName, Expect(" "), InternalName>>, text, 0, <<>>))
TabMethodLine(text, pos, current_class) ==
    LET Parsed(r) ==
            IF ~r.ok THEN LineResult(NoEffect, r)
            ELSE EndOfLine(text,
                           MethodEffect(MethodData(r.value[1], current_class, r.value[3]),
                                        r.value[5]),
                           r.pos)
    IN Parsed(ParserCalls(<<TakeUntilSpace, Expect(" "), Signature, Expect(" "),
                       TakeUntilSpace>>, text, pos, <<>>))
TabFieldLine(text, pos, current_class) ==
    LET Parsed(r) ==
            IF ~r.ok THEN LineResult(NoEffect, r)
            ELSE EndOfLine(text,
                           FieldEffect(FieldData(r.value[1], current_class), r.value[3]),
                           r.pos)
    IN Parsed(ParserCalls(<<TakeUntilSpace, Expect(" "), TakeUntilSpace>>,
                     text, pos, <<>>))

\* TabSrgLineProcessor::parse_line
TabSrgParseLine(text, current_class) ==
    LET comment == skip_whitespace(text, 0)
        count == split_whitespace_count(text, 1)
    IN IF is_finished(text, 0)
          \/ (~is_finished(text, comment) /\ text[comment + 1] = "#")
       THEN LineResult(NoEffect, Ok(<<>>, <<>>, 0))
       ELSE IF text[1] # "\t" THEN TabClassLine(text)
       ELSE IF current_class = None
       THEN LineResult(NoEffect,
                       SimpleParseError(1, Some(<<"Missing current class">>)))
       ELSE IF count = 3 THEN TabMethodLine(text, 1, current_class[1])
       ELSE IF count = 2 THEN TabFieldLine(text, 1, current_class[1])
       ELSE LineResult(NoEffect, error(1))

Formats == {"srg", "csrg", "tsrg"}
ParseLine(format, text, current_class) ==
    IF format = "srg" THEN SrgParseLine(text)
    ELSE IF format = "csrg" THEN CompactSrgParseLine(text)
    ELSE TabSrgParseLine(text, current_class)

\* MappingsParseError::InvalidLine
InvalidLine(line, index, reason) == [line |-> line, index |-> index, reason |-> reason]

\* a line processor with the lines parse_lines will hand to it; its result
\* is the builder
Processor(format, lines) ==
    [format |-> format, lines |-> lines, line |-> 0, packages |-> <<>>,
     current_class |-> None, status |-> "running", error |-> None]

\* the set_* call or packages.insert a line makes
ApplyEffect(b, effect) ==
    IF effect.kind = "class"
    THEN [b EXCEPT !.classes = Insert(@, effect.original, effect.renamed)]
    ELSE IF effect.kind = "field"
    THEN [b EXCEPT !.field_names = Insert(@, effect.original, effect.renamed)]
    ELSE IF effect.kind = "method"
    THEN [b EXCEPT !.method_names = Insert(@, effect.original, effect.renamed)]
    ELSE b

\* one turn of the loop of parse_lines: process_line on the next line, the
\* error returned to the caller if it fails
process_line ==
    /\ parse.format \in Formats
    /\ parse.status = "running"
    /\ parse.line < Len(parse.lines)
    /\ LET s == parse.lines[parse.line + 1]
           r == ParseLine(parse.format, s, parse.current_class)
       IN /\ builder' = ApplyEffect(builder, r.effect)
          /\ parse' = [parse EXCEPT
                !.line = @ + 1,
                !.packages = IF r.effect.kind = "package"
                             THEN Insert(@, r.effect.original, r.effect.renamed)
                             ELSE @,
                !.current_class = IF parse.format = "tsrg" /\ r.effect.kind = "class"
                                  THEN Some(r.effect.original)
                                  ELSE @,
                !.status = IF r.result.ok THEN "running" ELSE "failed",
                !.error = IF r.result.ok THEN None
                          ELSE Some(InvalidLine(s, r.result.index, r.result.reason))]
    /\ UNCHANGED <<boxes, snaps, pc, readers, history, call>>

\* SrgLineProcessor::finish runs transform_packages, whose closure calls
\* ReferenceType::from_internal_name on the joined name
FinishPanics(b, packages) ==
    \E e \in Entries(b.classes) :
        /\ Has(packages, split_name(e[2])[1])
        /\ ~ValidInternalName(PackageRenamed(packages, e[2]))

\* MappingsLineProcessor::finish
FinishTables(format, b, packages) ==
    IF format = "srg"
    THEN Transform(BuilderTables(b), PackageTransformer(packages))
    ELSE BuilderFrozen(b)

finish ==
    /\ parse.format \in Formats
    /\ parse.status = "running"
    /\ parse.line = Len(parse.lines)
    /\ IF parse.format = "srg" /\ FinishPanics(builder, parse.packages)
       THEN /\ parse' = [parse EXCEPT !.status = "panicked"]
            /\ UNCHANGED <<boxes, snaps>>
       ELSE /\ parse' = [parse EXCEPT !.status = "finished"]
            /\ boxes' = Append(boxes,
                    new_raw(FinishTables(parse.format, builder, parse.packages)))
            /\ snaps' = Append(snaps,
                    Handle(Len(boxes) + 1, "primary", "parse_lines", 0, parse.format))
    /\ UNCHANGED <<builder, pc, readers, history, call>>

(***************************************************************************)
(* Writers (MappingsFormat::write_line_array).                             *)
(***************************************************************************)
\* FieldData::internal_name / MethodData::internal_name
JoinedName(member) == (member.declaring_type \o <<"/">>) \o member.name

SrgClassText(e) == ((<<"C", "L", ":", " ">> \o e[1]) \o <<" ">>) \o e[2]
SrgFieldText(e) ==
    ((<<"F", "D", ":", " ">> \o JoinedName(e[1])) \o <<" ">>) \o JoinedName(e[2])
SrgMethodText(e) ==
    ((((((<<"M", "D", ":", " ">> \o JoinedName(e[1])) \o <<" ">>)
        \o SignatureDescriptor(e[1].signature)) \o <<" ">>)
        \o JoinedName(e[2])) \o <<" ">>) \o SignatureDescriptor(e[2].signature)
\* SrgMappingsFormat::write
SrgWrite(m) ==
    ([i \in DOMAIN m.classes |-> SrgClassText(m.classes[i])]
        \o [i \in DOMAIN m.fields |-> SrgFieldText(m.fields[i])])
        \o [i \in DOMAIN m.methods |-> SrgMethodText(m.methods[i])]

CompactClassText(e) == (e[1] \o <<" ">>) \o e[2]
CompactFieldText(e) ==
    (((e[1].declaring_type \o <<" ">>) \o e[1].name) \o <<" ">>) \o e[2].name
CompactMethodText(e) ==
    (((((e[1].declaring_type \o <<" ">>) \o e[1].name) \o <<" ">>)
        \o SignatureDescriptor(e[1].signature)) \o <<" ">>) \o e[2].name
\* CompactSrgMappingsFormat::write
CompactSrgWrite(m) ==
    ([i \in DOMAIN m.classes |-> CompactClassText(m.classes[i])]
        \o [i \in DOMAIN m.fields |-> CompactFieldText(m.fields[i])])
        \o [i \in DOMAIN m.methods |-> CompactMethodText(m.methods[i])]

\* the keys of ClassData::from_mappings in order: the classes of the class
\* table, then the declaring types of the fields, then those of the methods
RECURSIVE Distinct(_)
Distinct(s) ==
    IF s = <<>> THEN <<>>
    ELSE LET front == Distinct(SubSeq(s, 1, Len(s) - 1))
         IN IF \E i \in DOMAIN front : front[i] = s[Len(s)] THEN front
            ELSE Append(front, s[Len(s)])
ClassDataKeys(m) ==
    Distinct(([i \in DOMAIN m.classes |-> m.classes[i][1]]
                \o [i \in DOMAIN m.fields |-> m.fields[i][1].declaring_type])
                \o [i \in DOMAIN m.methods |-> m.methods[i][1].declaring_type])

TabClassText(m, declaring_type) ==
    (declaring_type \o <<" ">>)
        \o (IF Has(m.classes, declaring_type) THEN Get(m.classes, declaring_type)
            ELSE declaring_type)
TabFieldText(e) == ((<<"\t">> \o e[1].name) \o <<" ">>) \o e[2].name
TabMethodText(e) ==
    ((((<<"\t">> \o e[1].name) \o <<" ">>) \o SignatureDescriptor(e[1].signature))
        \o <<" ">>) \o e[2].name
\* the lines TabSrgMappingsFormat::write emits for one class
TabClassLines(m, declaring_type) ==
    LET fields == SelectSeq(m.fields, LAMBDA e : e[1].declaring_type = declaring_type)
        methods == SelectSeq(m.methods, LAMBDA e : e[1].declaring_type = declaring_type)
    IN (<<TabClassText(m, declaring_type)>>
            \o [i \in DOMAIN fields |-> TabFieldText(fields[i])])
            \o [i \in DOMAIN methods |-> TabMethodText(methods[i])]
\* TabSrgMappingsFormat::write
TabSrgWrite(m) ==
    Concat([i \in DOMAIN ClassDataKeys(m) |-> TabClassLines(m, ClassDataKeys(m)[i])])

Write(format, m) ==
    IF format = "srg" THEN SrgWrite(m)
    ELSE IF format = "csrg" THEN CompactSrgWrite(m)
    ELSE TabSrgWrite(m)

(***************************************************************************)
(* SpecRoundTrip: a mapping is built and frozen, written in one of the     *)
(* dialects, and the lines are parsed back by the same dialect.            *)
(***************************************************************************)
TextClassNames == {<<"X">>, <<"p", "/", "Y">>}
TextFieldNames == {<<"f">>, <<"g">>}
TextMethodNames == {<<"m">>, <<"n">>}
TextSignature ==
    MethodSignature(Primitive("void"), <<Array(1, Reference(<<"X">>))>>)
TextFieldKeys == {FieldData(<<"f">>, c) : c \in TextClassNames}
TextMethodKeys == {MethodData(<<"m">>, c, TextSignature) : c \in TextClassNames}

\* T::write_line_array(m) followed by T::processor()
write(format) ==
    /\ pc = "rt_frozen"
    /\ parse = NoParse
    /\ parse' = Processor(format, Write(format, Tables(snaps[1])))
    /\ builder' = EmptyBuilder
    /\ pc' = "parsing"
    /\ UNCHANGED <<boxes, snaps, readers, history, call>>

InitRoundTrip ==
    /\ builder = EmptyBuilder
    /\ boxes = <<>>
    /\ snaps = <<>>
    /\ pc = "rt"
    /\ readers = <<>>
    /\ history = <<>>
    /\ call = NoCall
    /\ parse = NoParse

NextRoundTrip ==
    \/ \E o \in TextClassNames, r \in TextClassNames : set_remapped_class(o, r)
    \/ \E o \in TextFieldKeys, r \in TextFieldNames : set_field_name(o, r)
    \/ \E o \in TextMethodKeys, r \in TextMethodNames : set_method_name(o, r)
    \/ frozen
    \/ \E format \in Formats : write(format)
    \/ process_line
    \/ finish

SpecRoundTrip == InitRoundTrip /\ [][NextRoundTrip]_vars

(***************************************************************************)
(* SpecLines: parse_lines on up to MaxLines lines, well formed or not.     *)
(***************************************************************************)
SrgLines ==
    { <<"C", "L", ":", " ", "X", " ", "Y">>,
      <<"C", "L", ":", " ", "X", " ", "p", "/", "Y">>,
      <<"F", "D", ":", " ", "X", "/", "f", " ", "Y", "/", "g">>,
      <<"M", "D", ":", " ", "X", "/", "m", " ", "(", ")", "V", " ",
        "Y", "/", "n", " ", "(", ")", "V">>,
      <<"P", "K", ":", " ", ".", "/", " ", "q">>,
      <<"P", "K", ":", " ", ".", "/", " ", "a", ".", "b">>,
      <<"P", "K", ":", " ", "p", " ", "q">>,
      <<"#", "X">>,
      <<>>,
      <<"C", "L", ":", " ", "X", " ", "a", ".", "b">>,
      <<"C", "L", ":", " ", "X", " ", "Y", " ", "Z">>,
      <<"F", "D", ":", " ", "f", " ", "g">>,
      <<"M", "D", ":", " ", "X", "/", "m", " ", "(", "V">>,
      <<"X", "X", ":", " ", "X", " ", "Y">>,
      <<"C">> }
CompactSrgLines ==
    { <<"X", " ", "Y">>,
      <<"X", " ", "f", " ", "g">>,
      <<"X", " ", "m", " ", "(", ")", "V", " ", "n">>,
      <<"#", "X">>,
      <<>>,
      <<"X", " ", "a", ".", "b">>,
      <<"a", ".", "b", " ", "f", " ", "g">>,
      <<"X", " ", "f", ".", "f", " ", "g">>,
      <<"X", " ", "m", " ", "(", " ", "n">>,
      <<"X", " ", " ", "Y">>,
      <<"X">> }
TabSrgLines ==
    { <<"X", " ", "Y">>,
      <<"\t", "f", " ", "g">>,
      <<"\t", "m", " ", "(", ")", "V", " ", "n">>,
      <<"#", "X">>,
      <<>>,
      <<"X", " ", "a", ".", "b">>,
      <<"X", " ", "Y", " ", "Z">>,
      <<"\t", "f", ".", "f", " ", "g">>,
      <<"\t", "m", " ", "(", "V", " ", "n">>,
      <<"\t", "f">>,
      <<"X">> }
LinesOf(format) ==
    IF format = "srg" THEN SrgLines
    ELSE IF format = "csrg" THEN CompactSrgLines
    ELSE TabSrgLines
LineArrays(format) == UNION {[1..n -> LinesOf(format)] : n \in 0..MaxLines}

InitLines ==
    /\ builder = EmptyBuilder
    /\ boxes = <<>>
    /\ snaps = <<>>
    /\ pc = "parsing"
    /\ readers = <<>>
    /\ history = <<>>
    /\ call = NoCall
    /\ parse \in UNION {{Processor(format, lines) : lines \in LineArrays(format)} :
                        format \in Formats}

NextLines ==
    \/ process_line
    \/ finish

SpecLines == InitLines /\ [][NextLines]_vars

(***************************************************************************)
(* SpecCompact: CompactSrgFormat::parse_lines on member lines that share   *)
(* the class, the name, or both: "o a d" and "o a (I)Z h" are the lines    *)
(* "obf4 a dead" and "obf4 a (I)Z isHacking" of tests/format.rs with       *)
(* one-letter names.                                                       *)
(***************************************************************************)
CompactMemberLines ==
    { <<"o", " ", "a", " ", "d">>,
      <<"o", " ", "a", " ", "e">>,
      <<"o", " ", "b", " ", "d">>,
      <<"o", " ", "a", " ", "(", "I", ")", "Z", " ", "h">>,
      <<"o", " ", "a", " ", "(", "I", ")", "Z", " ", "k">>,
      <<"o", " ", "a", " ", "(", ")", "Z", " ", "g">> }

InitCompact ==
    /\ builder = EmptyBuilder
    /\ boxes = <<>>
    /\ snaps = <<>>
    /\ pc = "parsing"
    /\ readers = <<>>
    /\ history = <<>>
    /\ call = NoCall
    /\ parse \in {Processor("csrg", lines) :
                    lines \in UNION {[1..n -> CompactMemberLines] :
                                        n \in 0..MaxCompactLines}}

NextCompact ==
    \/ process_line
    \/ finish

SpecCompact == InitCompact /\ [][NextCompact]_vars

(***************************************************************************)
(* SpecArray: ArrayType::new on a dimension count and an element type,     *)
(* then internal_name on the array it made.  Text is a sequence of         *)
(* characters.                                                             *)
(***************************************************************************)
\* PrimitiveType::name, which is also its internal_name
PrimitiveName(prim) ==
    CASE prim = "byte" -> <<"b", "y", "t", "e">>
      [] prim = "short" -> <<"s", "h", "o", "r", "t">>
      [] prim = "int" -> <<"i", "n", "t">>
      [] prim = "long" -> <<"l", "o", "n", "g">>
      [] prim = "float" -> <<"f", "l", "o", "a", "t">>
      [] prim = "double" -> <<"d", "o", "u", "b", "l", "e">>
      [] prim = "char" -> <<"c", "h", "a", "r">>
      [] prim = "boolean" -> <<"b", "o", "o", "l", "e", "a", "n">>
      [] prim = "void" -> <<"v", "o", "i", "d">>

\* ElementType::internal_name of the element of an array, or of a type that
\* is not an array
ElementInternalName(t) == IF t.prim # "" THEN PrimitiveName(t.prim) ELSE t.ref

\* the loop of ArrayType::internal_name: "[]" pushed once per dimension
RECURSIVE PushBrackets(_, _)
PushBrackets(buffer, dimensions) ==
    IF dimensions = 0 THEN buffer
    ELSE PushBrackets(buffer \o <<"[", "]">>, dimensions - 1)

\* ArrayType::internal_name
ArrayInternalNameOnce(t) == PushBrackets(ElementInternalName(t), 1)
ArrayInternalName(t) == PushBrackets(ElementInternalName(t), t.dimensions)

\* ArrayType::new: the two panics, or the array with its descriptor
ArrayNew(dimensions, element_type) ==
    IF dimensions < 1 THEN [status |-> "panicked", reason |-> "Invalid dimensions"]
    ELSE IF element_type.kind = "Array"
    THEN [status |-> "panicked", reason |-> "Can't have array element_type"]
    ELSE [status |-> "ok", value |-> Array(dimensions, element_type),
          descriptor |-> Descriptor(Array(dimensions, element_type))]

ElementTypes ==
    {Primitive(e[2]) : e \in PrimitiveTypes}
        \cup {Reference(<<"X">>), Reference(<<"p", "/", "Y">>),
              Array(1, Reference(<<"X">>))}

array_new ==
    /\ call.fn = "array_input"
    /\ call' = [fn |-> "ArrayType::new", dimensions |-> call.dimensions,
                element_type |-> call.element_type,
                result |-> ArrayNew(call.dimensions, call.element_type)]
    /\ UNCHANGED <<builder, boxes, snaps, pc, readers, history, parse>>

internal_name ==
    /\ call.fn = "ArrayType::new"
    /\ call.result.status = "ok"
    /\ call' = [fn |-> "internal_name", dimensions |-> call.dimensions,
                element_type |-> call.element_type, result |-> call.result,
                name |-> ArrayInternalName(call.result.value)]
    /\ UNCHANGED <<builder, boxes, snaps, pc, readers, history, parse>>

InitArray ==
    /\ builder = EmptyBuilder
    /\ boxes = <<>>
    /\ snaps = <<>>
    /\ pc = "types"
    /\ readers = <<>>
    /\ history = <<>>
    /\ parse = NoParse
    /\ call \in {[fn |-> "array_input", dimensions |-> d, element_type |-> e] :
                    d \in 0..MaxDimensions, e \in ElementTypes}

NextArray ==
    \/ array_new
    \/ internal_name

SpecArray == InitArray /\ [][NextArray]_vars

(***************************************************************************)
(* SpecViews: one builder is filled and frozen, then handles are made from *)
(* handles by clone and inverted only.                                     *)
(***************************************************************************)
NextViews ==
    \/ \E o \in ClassNames, r \in ClassNames : set_remapped_class(o, r)
    \/ \E o \in FieldKeys, r \in FieldNames : set_field_name(o, r)
    \/ \E o \in MethodKeys, r \in MethodNames : set_method_name(o, r)
    \/ frozen
    \/ \E i \in DOMAIN snaps : clone(i)
    \/ \E i \in DOMAIN snaps : inverted(i)

SpecViews == Init /\ [][NextViews]_vars

(***************************************************************************)
(* SpecRemapType: Mappings::remap_type on a type parsed from its           *)
(* descriptor.  A type value is kept together with the descriptor text it  *)
(* stores: the slice a parser consumed, or the text a constructor built.   *)
(***************************************************************************)
Described(value, descriptor) == [value |-> value, descriptor |-> descriptor]

\* the ReferenceType a class table holds: ReferenceType::from_internal_name
DescribedReference(c) == Described(Reference(c), (<<"L">> \o c) \o <<";">>)

\* Mappings::remap_type: TypeDescriptor::map_class with get_remapped_class;
\* a type whose class has no entry is cloned, an array whose element class
\* has one is rebuilt by ArrayType::new
remap_type_stale_descriptor(m, original) ==
    IF original.value.prim # "" \/ ~Has(m.classes, original.value.ref) THEN original
    ELSE IF original.value.kind = "Reference"
    THEN DescribedReference(Get(m.classes, original.value.ref))
    ELSE Described(
            Array(original.value.dimensions, Reference(Get(m.classes, original.value.ref))),
            original.descriptor)
remap_type(m, original) ==
    IF original.value.prim # "" \/ ~Has(m.classes, original.value.ref) THEN original
    ELSE IF original.value.kind = "Reference"
    THEN DescribedReference(Get(m.classes, original.value.ref))
    ELSE Described(
            ArrayNew(original.value.dimensions,
                     Reference(Get(m.classes, original.value.ref))).value,
            ArrayNew(original.value.dimensions,
                     Reference(Get(m.classes, original.value.ref))).descriptor)

\* the descriptors parsed: a primitive, three classes, and arrays of them
TypeTexts ==
    {ArrayPrefix(d) \o e :
        d \in 0..MaxDimensions,
        e \in {<<"I">>, <<"L", "X", ";">>, <<"L", "Y", ";">>,
               <<"L", "p", "/", "Z", ";">>}}
\* the class tables of the mappings remap_type is called on
TypeClassTables ==
    { <<>>,
      <<<< <<"X">>, <<"Y">> >>>>,
      <<<< <<"X">>, <<"X">> >>>>,
      <<<< <<"X">>, <<"Y">> >>, << <<"Y">>, <<"X">> >>>>,
      <<<< <<"p", "/", "Z">>, <<"X">> >>, << <<"Y">>, <<"q", "/", "Y">> >>>> }

\* JavaType::parse_descriptor for TypeDescriptor
parse_descriptor ==
    /\ call.fn = "type_input"
    /\ call' = [fn |-> "parse_descriptor", m |-> call.m,
                original |-> Described(ParseText("TypeDescriptor", call.text).value,
                                       ParseText("TypeDescriptor", call.text).descriptor)]
    /\ UNCHANGED <<builder, boxes, snaps, pc, readers, history, parse>>

remap_type_call ==
    /\ call.fn = "parse_descriptor"
    /\ call' = [fn |-> "remap_type", m |-> call.m, original |-> call.original,
                ret |-> remap_type(call.m, call.original)]
    /\ UNCHANGED <<builder, boxes, snaps, pc, readers, history, parse>>

InitRemapType ==
    /\ builder = EmptyBuilder
    /\ boxes = <<>>
    /\ snaps = <<>>
    /\ pc = "types"
    /\ readers = <<>>
    /\ history = <<>>
    /\ parse = NoParse
    /\ call \in {[fn |-> "type_input", m |-> Inner(classes, <<>>, <<>>), text |-> text] :
                    classes \in TypeClassTables, text \in TypeTexts}

NextRemapType ==
    \/ parse_descriptor
    \/ remap_type_call

SpecRemapType == InitRemapType /\ [][NextRemapType]_vars

(***************************************************************************)
(* SpecFrame: a builder is frozen once and used on afterwards, while       *)
(* handles are made from the snapshot.                                     *)
(***************************************************************************)
\* FrozenMappings::rebuild: a builder with the snapshot's entries
Rebuild(m) ==
    [classes |-> m.classes,
     field_names |-> [i \in DOMAIN m.fields |-> <<m.fields[i][1], m.fields[i][2].name>>],
     method_names |-> [i \in DOMAIN m.methods |-> <<m.methods[i][1], m.methods[i][2].name>>]]

\* let mut builder = snapshot.rebuild()
rebuild(i) ==
    /\ pc = "frame"
    /\ builder' = Rebuild(Tables(snaps[i]))
    /\ builder' # builder
    /\ UNCHANGED <<boxes, snaps, pc, readers, history, call, parse>>

InitFrame ==
    /\ builder = EmptyBuilder
    /\ boxes = <<>>
    /\ snaps = <<>>
    /\ pc = "frame"
    /\ readers = <<>>
    /\ history = <<>>
    /\ call = NoCall
    /\ parse = NoParse

NextFrame ==
    \/ \E o \in ClassNames, r \in ClassNames : set_remapped_class(o, r)
    \/ \E o \in FieldKeys : set_field_name(o, "g")
    \/ \E o \in MethodKeys : set_method_name(o, "n")
    \/ retain_classes
    \/ retain_fields
    \/ retain_methods
    \/ clear_classes
    \/ clear_fields
    \/ clear_methods
    \/ frozen
    \/ \E i \in DOMAIN snaps : clone(i)
    \/ \E i \in DOMAIN snaps : inverted(i)
    \/ \E i \in DOMAIN snaps, j \in DOMAIN snaps : chain(i, j)
    \/ \E i \in DOMAIN snaps, t \in Closures : transform(i, t)
    \/ \E i \in DOMAIN snaps : rebuild(i)

SpecFrame == InitFrame /\ [][NextFrame]_vars

(***************************************************************************)
(* SpecIdentity: one mapping is built and frozen, then handles are made    *)
(* from it and from the shared empty mapping by inverted, chain and the    *)
(* chain! macro without arguments.  The lazy_static EMPTY_MAPPINGS owns    *)
(* the first box of the heap.                                              *)
(***************************************************************************)
\* EMPTY_MAPPINGS: new_raw of three default tables
EMPTY_MAPPINGS == new_raw(Inner(<<>>, <<>>, <<>>))

\* FrozenMappings::empty: a clone of the handle on EMPTY_MAPPINGS
empty(op) == Handle(1, "primary", op, 0, 0)

\* chain!: no argument gives FrozenMappings::empty(), one argument its
\* frozen(), more arguments the first one's frozen() with the remaining ones
\* chained onto it in turn
chain_macro(args) ==
    /\ pc = "identity_frozen"
    /\ MoreSnaps
    /\ IF args = <<>>
       THEN /\ boxes' = boxes
            /\ snaps' = Append(snaps, empty("chain!"))
       ELSE IF Len(args) = 1
       THEN /\ boxes' = boxes
            /\ snaps' = Append(snaps, Handle(snaps[args[1]].owner,
                                             snaps[args[1]].view, "chain!", args[1], 0))
       ELSE /\ boxes' = Append(HeapAfterInverted(boxes, snaps[args[1]]),
                               new_raw(ChainResult(boxes, snaps[args[1]], snaps[args[2]])))
            /\ snaps' = Append(snaps, Handle(Len(boxes) + 1, "primary", "chain!",
                                             args[1], args[2]))
    /\ UNCHANGED <<builder, pc, readers, history, call, parse>>

InitIdentity ==
    /\ builder = EmptyBuilder
    /\ boxes = <<EMPTY_MAPPINGS>>
    /\ snaps = <<>>
    /\ pc = "identity"
    /\ readers = <<>>
    /\ history = <<>>
    /\ call = NoCall
    /\ parse = NoParse

NextIdentity ==
    \/ \E o \in ClassNames, r \in ClassNames : set_remapped_class(o, r)
    \/ \E o \in FieldKeys : set_field_name(o, "g")
    \/ \E o \in MethodKeys : set_method_name(o, "n")
    \/ frozen
    \/ \E i \in DOMAIN snaps : inverted(i)
    \/ \E i \in DOMAIN snaps, j \in DOMAIN snaps : chain(i, j)
    \/ chain_macro(<<>>)

SpecIdentity == InitIdentity /\ [][NextIdentity]_vars

(***************************************************************************)
(* SpecCache: an LruCache (utils.rs) of some capacity and the calls of     *)
(* insert and get_or_insert_with made on it.  A failed assertion panics    *)
(* and ends the use of the cache.                                          *)
(***************************************************************************)
CacheKeys == {"k1", "k2", "k3"}
CacheValues == {"v1", "v2"}

\* LruCache::new
LruCache(capacity) ==
    [fn |-> "LruCache", capacity |-> capacity, map |-> <<>>, status |-> "ok",
     calls |-> 0, last |-> [op |-> "new"]]

\* the closure cleanup hands to IndexMap::retain: it counts the entries it
\* is shown and answers index < needed_removed, and retain keeps the
\* entries for which the answer is true
RECURSIVE RetainCounted(_, _, _)
RetainCounted(map, index, needed_removed) ==
    IF map = <<>> THEN <<>>
    ELSE (IF index < needed_removed THEN <<Head(map)>> ELSE <<>>)
         \o RetainCounted(Tail(map), index + 1, needed_removed)

\* LruCache::cleanup on a map: the map it leaves and the assertion that
\* failed, if one did
Cleanup(map, capacity) ==
    IF ~(Len(map) >= capacity)
    THEN [map |-> map, status |-> "panicked",
          assertion |-> "self.map.len() >= self.capacity"]
    ELSE LET retained == RetainCounted(map, 0, Len(map) - capacity)
         IN IF Len(retained) <= capacity
            THEN [map |-> retained, status |-> "ok", assertion |-> ""]
            ELSE [map |-> retained, status |-> "panicked",
                  assertion |-> "self.map.len() <= self.capacity"]

\* LruCache::insert
cache_insert(key, value) ==
    /\ call.fn = "LruCache"
    /\ call.status = "ok"
    /\ call.calls < MaxCacheCalls
    /\ LET vacant == ~Has(call.map, key)
           map == Insert(call.map, key, value)
           old == IF vacant THEN None ELSE Some(Get(call.map, key))
           after == IF vacant /\ Len(map) >= call.capacity
                    THEN Cleanup(map, call.capacity)
                    ELSE [map |-> map, status |-> "ok", assertion |-> ""]
       IN call' = [call EXCEPT
              !.map = after.map, !.status = after.status, !.calls = @ + 1,
              !.last = [op |-> "insert", key |-> key, value |-> value,
                        cleanup |-> vacant /\ Len(map) >= call.capacity,
                        assertion |-> after.assertion, result |-> old]]
    /\ UNCHANGED <<builder, boxes, snaps, pc, readers, history, parse>>

\* LruCache::get_or_insert_with: entry(key).or_insert_with(func), func
\* returning value
get_or_insert_with(key, value) ==
    /\ call.fn = "LruCache"
    /\ call.status = "ok"
    /\ call.calls < MaxCacheCalls
    /\ LET map == IF Has(call.map, key) THEN call.map
                  ELSE Append(call.map, <<key, value>>)
       IN call' = [call EXCEPT
              !.map = map, !.calls = @ + 1,
              !.last = [op |-> "get_or_insert_with", key |-> key, value |-> value,
                        cleanup |-> FALSE, assertion |-> "",
                        result |-> Some(Get(map, key))]]
    /\ UNCHANGED <<builder, boxes, snaps, pc, readers, history, parse>>

InitCache ==
    /\ builder = EmptyBuilder
    /\ boxes = <<>>
    /\ snaps = <<>>
    /\ pc = "cache"
    /\ readers = <<>>
    /\ history = <<>>
    /\ parse = NoParse
    /\ call \in {LruCache(capacity) : capacity \in 0..MaxCapacity}

NextCache ==
    \/ \E key \in CacheKeys, value \in CacheValues : cache_insert(key, value)
    \/ \E key \in CacheKeys, value \in CacheValues : get_or_insert_with(key, value)

SpecCache == InitCache /\ [][NextCache]_vars



(***************************************************************************)
(* SpecRace: NumReaders threads share one freshly frozen snapshot and each *)
(* calls inverted() on it once.  A thread's call runs                      *)
(* FrozenMappingsBox::inverted (frozen.rs:23-32) step by step; the cell is *)
(* an AtomicLazyCell whose state word is NONE, LOCK or SOME: borrow yields *)
(* the value only in state SOME, fill moves NONE to LOCK with a            *)
(* compare-and-swap, stores the value, then moves LOCK to SOME, and        *)
(* returns its argument without storing it when the swap fails.            *)
(***************************************************************************)
Reader(at, value, result) == [pc |-> at, value |-> value, result |-> result]

\* the mappings the shared snapshot is frozen from
RaceBuilders ==
    {[classes |-> c, field_names |-> f, method_names |-> <<>>] :
        c \in {<<>>} \cup {<< <<o, r>> >> : o \in ClassNames, r \in ClassNames},
        f \in {<<>>} \cup {<< <<k, n>> >> : k \in FieldKeys, n \in FieldNames}}

InitRace ==
    /\ builder \in RaceBuilders
    /\ boxes = <<new_raw(BuilderFrozen(builder))>>
    /\ snaps = <<Handle(1, "primary", "frozen", 0, 0)>>
    /\ pc = "race"
    /\ readers = [r \in 1..NumReaders |-> Reader("start", EmptyInner, EmptyInner)]
    /\ history = <<>>
    /\ call = NoCall
    /\ parse = NoParse

\* the call returns the view of the cell's value as a new handle
reader_return(r) ==
    /\ readers' = [readers EXCEPT ![r] = Reader("done", EmptyInner, boxes[1].inner)]
    /\ snaps' = Append(snaps, Handle(1, "inverted", "inverted", 1, 0))

\* frozen.rs:24-28  match self.inverted.borrow(); on None the inverse of the
\* primary tables is computed as the argument of fill
reader_borrow(r) ==
    /\ pc = "race"
    /\ readers[r].pc = "start"
    /\ IF boxes[1].state = "SOME"
       THEN reader_return(r)
       ELSE /\ readers' = [readers EXCEPT
                   ![r] = Reader("fill", InnerInverted(boxes[1].primary), EmptyInner)]
            /\ UNCHANGED snaps
    /\ UNCHANGED <<builder, boxes, pc, history, call, parse>>

\* frozen.rs:28  fill: compare-and-swap NONE -> LOCK; a failed swap returns
\* Err(value), which the caller drops
reader_fill_overwrite(r) ==
    /\ pc = "race"
    /\ readers[r].pc = "fill"
    /\ boxes' = [boxes EXCEPT ![1].state = "LOCK"]
    /\ readers' = [readers EXCEPT ![r].pc = "store"]
    /\ UNCHANGED <<builder, snaps, pc, history, call, parse>>
reader_fill_lock(r) ==
    /\ pc = "race"
    /\ readers[r].pc = "fill"
    /\ IF boxes[1].state = "NONE"
       THEN /\ boxes' = [boxes EXCEPT ![1].state = "LOCK"]
            /\ readers' = [readers EXCEPT ![r].pc = "store"]
       ELSE /\ readers' = [readers EXCEPT ![r] = Reader("reborrow", EmptyInner, EmptyInner)]
            /\ UNCHANGED boxes
    /\ UNCHANGED <<builder, snaps, pc, history, call, parse>>

\* frozen.rs:28  fill: the value is written into the cell
reader_fill_store(r) ==
    /\ pc = "race"
    /\ readers[r].pc = "store"
    /\ boxes' = [boxes EXCEPT ![1].inner = readers[r].value]
    /\ readers' = [readers EXCEPT ![r] = Reader("release", EmptyInner, EmptyInner)]
    /\ UNCHANGED <<builder, snaps, pc, history, call, parse>>

\* frozen.rs:28  fill: LOCK -> SOME publishes the value
reader_fill_release(r) ==
    /\ pc = "race"
    /\ readers[r].pc = "release"
    /\ boxes' = [boxes EXCEPT ![1].state = "SOME"]
    /\ readers' = [readers EXCEPT ![r].pc = "reborrow"]
    /\ UNCHANGED <<builder, snaps, pc, history, call, parse>>

\* frozen.rs:29  self.inverted.borrow().unwrap(): unwrap panics on None
reader_reborrow(r) ==
    /\ pc = "race"
    /\ readers[r].pc = "reborrow"
    /\ IF boxes[1].state = "SOME"
       THEN reader_return(r)
       ELSE /\ readers' = [readers EXCEPT ![r].pc = "panicked"]
            /\ UNCHANGED snaps
    /\ UNCHANGED <<builder, boxes, pc, history, call, parse>>

NextRace ==
    \/ \E r \in DOMAIN readers : reader_borrow(r)
    \/ \E r \in DOMAIN readers : reader_fill_lock(r)
    \/ \E r \in DOMAIN readers : reader_fill_store(r)
    \/ \E r \in DOMAIN readers : reader_fill_release(r)
    \/ \E r \in DOMAIN readers : reader_reborrow(r)

SpecRace == InitRace /\ [][NextRace]_vars

(***************************************************************************)
(* Properties of chain.                                                    *)
(***************************************************************************)
\* the handles produced by chain, with the tables of their two arguments
ChainHandles == {n \in DOMAIN snaps : snaps[n].op = "chain"}
FirstOf(n) == Tables(snaps[snaps[n].a])
SecondOf(n) == Tables(snaps[snaps[n].b])

\* remap_X of the chained mapping against remap_X of the two stages in turn
ComposesOnClass(n, k) ==
    remap_class(Tables(snaps[n]), k)
        = remap_class(SecondOf(n), remap_class(FirstOf(n), k))
ComposesOnField(n, k) ==
    remap_field(Tables(snaps[n]), k)
        = remap_field(SecondOf(n), remap_field(FirstOf(n), k))
ComposesOnMethod(n, k) ==
    remap_method(Tables(snaps[n]), k)
        = remap_method(SecondOf(n), remap_method(FirstOf(n), k))

OldestClass(first, c) ==
    IF c \in Values(first.classes)
    THEN LET last == CHOOSE i \in DOMAIN first.classes :
                        /\ first.classes[i][2] = c
                        /\ \A j \in DOMAIN first.classes :
                              first.classes[j][2] = c => j <= i
         IN first.classes[last][1]
    ELSE c
OldestTable(first) ==
    LET outs == Values(first.classes)
        order == CHOOSE q \in [1..Cardinality(outs) -> outs] :
                    \A c \in outs : \E i \in DOMAIN q : q[i] = c
    IN [i \in DOMAIN order |-> <<order[i], OldestClass(first, order[i])>>]
OldestField(first, fd) == FieldData(fd.name, OldestClass(first, fd.declaring_type))
OldestMethod(first, md) ==
    MethodData(md.name, OldestClass(first, md.declaring_type),
               TransformSignature(md.signature, OldestTable(first)))

C3_StoredField(a, b, p) ==
    LET fresh == SelectSeq(b.fields, LAMBDA e : e[1] \notin Values(a.fields))
        key == OldestField(a, fresh[p][1])
        last == CHOOSE q \in DOMAIN fresh :
                   /\ OldestField(a, fresh[q][1]) = key
                   /\ \A q2 \in DOMAIN fresh :
                         OldestField(a, fresh[q2][1]) = key => q2 <= q
    IN IF key \in Keys(a.fields) THEN remap_field(b, Get(a.fields, key))
       ELSE fresh[last][2]
C3_StoredMethod(a, b, p) ==
    LET fresh == SelectSeq(b.methods, LAMBDA e : e[1] \notin Values(a.methods))
        key == OldestMethod(a, fresh[p][1])
        last == CHOOSE q \in DOMAIN fresh :
                   /\ OldestMethod(a, fresh[q][1]) = key
                   /\ \A q2 \in DOMAIN fresh :
                         OldestMethod(a, fresh[q2][1]) = key => q2 <= q
    IN IF key \in Keys(a.methods) THEN remap_method(b, Get(a.methods, key))
       ELSE fresh[last][2]

CreatorOp(n) ==
    snaps[CHOOSE c \in DOMAIN snaps :
            /\ snaps[c].owner = snaps[n].owner
            /\ snaps[c].op \notin {"clone", "inverted"}].op

\* the member tables agree with the class table on every declaring type
DeclaringTypesFollowClasses(m) ==
    /\ \A e \in Entries(m.fields) :
          e[2].declaring_type = remap_class(m, e[1].declaring_type)
    /\ \A e \in Entries(m.methods) :
          e[2].declaring_type = remap_class(m, e[1].declaring_type)

\* C5 as stated: in every snapshot reachable by freeze, transform, chain,
\* clone or inverted, every field and method entry's renamed declaring type is
\* remap_class of the declaring type of the entry's original.
C5_EverySnapshotConsistent ==
    \A n \in DOMAIN snaps : DeclaringTypesFollowClasses(Tables(snaps[n]))

\* C5 amended: the same holds for every snapshot that views the primary
\* tables of a box built by freeze or transform (directly, as a clone, or
\* after inverting twice); inverted views and results of chain, which are
\* built without the consistency pass, are not covered.
C5_CheckedSnapshotsConsistent ==
    \A n \in DOMAIN snaps :
        (snaps[n].view = "primary" /\ CreatorOp(n) \in {"frozen", "transform"})
            => DeclaringTypesFollowClasses(Tables(snaps[n]))

\* a frozen or transformed snapshot with a member whose declaring class is
\* renamed
C5_Witness ==
    \E n \in DOMAIN snaps :
        /\ snaps[n].view = "primary"
        /\ CreatorOp(n) \in {"frozen", "transform"}
        /\ \E e \in Entries(Tables(snaps[n]).fields) \cup Entries(Tables(snaps[n]).methods) :
              /\ Has(Tables(snaps[n]).classes, e[1].declaring_type)
              /\ e[2].declaring_type # e[1].declaring_type

\* a type with its class reference remapped through the class table of m,
\* kind and dimensions kept
TypeFollowsClasses(m, orig, renamed) ==
    /\ renamed.kind = orig.kind
    /\ renamed.dimensions = orig.dimensions
    /\ renamed.prim = orig.prim
    /\ renamed.ref = IF orig.prim # "" THEN orig.ref ELSE remap_class(m, orig.ref)

SignatureFollowsClasses(m, orig, renamed) ==
    /\ TypeFollowsClasses(m, orig.return_type, renamed.return_type)
    /\ Len(renamed.parameter_types) = Len(orig.parameter_types)
    /\ \A i \in DOMAIN orig.parameter_types :
          TypeFollowsClasses(m, orig.parameter_types[i], renamed.parameter_types[i])

\* the member names a snapshot was built with: the builder's for frozen, the
\* transformer's answer on the source's renamed member for transform
SourceFieldName(n, k) ==
    IF snaps[n].op = "frozen" THEN Get(builder.field_names, k)
    ELSE RenamedField(snaps[n].b, Get(Tables(snaps[snaps[n].a]).fields, k))
SourceMethodName(n, k) ==
    IF snaps[n].op = "frozen" THEN Get(builder.method_names, k)
    ELSE RenamedMethod(snaps[n].b, Get(Tables(snaps[snaps[n].a]).methods, k))

\* C6: in every snapshot produced by freezing a builder or by transform, each
\* field and method entry's renamed side has the declaring type and the
\* signature types of the original remapped through the snapshot's own class
\* table, and only the member name comes from the stored rename.
C6_RenamedSideFromClassTable ==
    \A n \in DOMAIN snaps :
        snaps[n].op \in {"frozen", "transform"} =>
            LET m == Tables(snaps[n])
            IN /\ \A e \in Entries(m.fields) :
                     e[2] = FieldData(SourceFieldName(n, e[1]),
                                      remap_class(m, e[1].declaring_type))
               /\ \A e \in Entries(m.methods) :
                     /\ e[2].name = SourceMethodName(n, e[1])
                     /\ e[2].declaring_type = remap_class(m, e[1].declaring_type)
                     /\ SignatureFollowsClasses(m, e[1].signature, e[2].signature)

\* a frozen or transformed snapshot holding a renamed method whose signature
\* changed with the class table
C6_Witness ==
    \E n \in DOMAIN snaps :
        /\ snaps[n].op \in {"frozen", "transform"}
        /\ \E e \in Entries(Tables(snaps[n]).methods) :
              /\ e[2].signature # e[1].signature
              /\ e[2].name # e[1].name

\* every order in which the entries of an insertion-ordered table can stand
Reorderings(map) ==
    {[i \in 1..Len(map) |-> map[p[i]]] : p \in Permutations(1..Len(map))}

BuilderReorderings ==
    {[classes |-> c, field_names |-> f, method_names |-> m] :
        c \in Reorderings(builder.classes),
        f \in Reorderings(builder.field_names),
        m \in Reorderings(builder.method_names)}

\* C7: freeze depends only on the builder's final tables: the snapshot
\* frozen from the builder equals the snapshot frozen from the same entries
\* standing in any other order, and every member's renamed declaring type is
\* the one the final class table gives, whenever the member was inserted.
C7_FreezeIgnoresInsertionOrder ==
    \A n \in DOMAIN snaps :
        snaps[n].op = "frozen" =>
            /\ \A b \in BuilderReorderings :
                  InnerEq(Tables(snaps[n]), BuilderFrozen(b))
            /\ \A e \in Entries(Tables(snaps[n]).fields) \cup Entries(Tables(snaps[n]).methods) :
                  e[2].declaring_type =
                      IF Has(builder.classes, e[1].declaring_type)
                      THEN Get(builder.classes, e[1].declaring_type)
                      ELSE e[1].declaring_type

\* a frozen builder holding two class entries and a member of a renamed class
C7_Witness ==
    /\ pc = "solo_done"
    /\ Len(builder.classes) = 2
    /\ \E e \in Entries(Tables(snaps[1]).fields) \cup Entries(Tables(snaps[1]).methods) :
          e[2].declaring_type # e[1].declaring_type

\* C8: inverting twice gives back tables equal to the snapshot's own, also
\* when two originals share a renamed value.
C8_DoubleInversionIsIdentity ==
    \A n \in DOMAIN snaps :
        (snaps[n].op = "inverted" /\ snaps[snaps[n].a].op = "inverted") =>
            InnerEq(Tables(snaps[n]), Tables(snaps[snaps[snaps[n].a].a]))

\* a snapshot mapping two originals to one renamed class was inverted twice
C8_Witness ==
    \E n \in DOMAIN snaps :
        /\ snaps[n].op = "inverted"
        /\ snaps[snaps[n].a].op = "inverted"
        /\ LET m == Tables(snaps[snaps[snaps[n].a].a])
           IN \E i, j \in DOMAIN m.classes :
                  i # j /\ m.classes[i][2] = m.classes[j][2]

InvertedHandles == {n \in DOMAIN snaps : snaps[n].op = "inverted"}
Swapped(map) == {<<e[2], e[1]>> : e \in Entries(map)}

\* C9 as stated: each table of m.inverted() holds v -> k for every entry
\* k -> v of m and nothing else.
C9_InverseIsSwappedEntries ==
    \A n \in InvertedHandles :
        LET m == Tables(snaps[snaps[n].a])
            inv == Tables(snaps[n])
        IN /\ Entries(inv.classes) = Swapped(m.classes)
           /\ Entries(inv.fields) = Swapped(m.fields)
           /\ Entries(inv.methods) = Swapped(m.methods)

\* the table inv is the inverse of the table map with the last original kept
\* for a renamed value shared by several originals
LastWinsInverse(map, inv) ==
    /\ Keys(inv) = Values(map)
    /\ \A e \in Entries(inv) :
          \E i \in DOMAIN map :
              /\ map[i] = <<e[2], e[1]>>
              /\ \A j \in DOMAIN map : map[j][2] = e[1] => j <= i

\* C9 amended: the inverse of a snapshot viewing primary tables holds, for
\* every renamed value v, the one entry v -> k with k the last original
\* mapped to v; inverting an inverted view gives the primary tables, which
\* hold k -> v for every entry v -> k of the view.
C9_InverseKeepsLastOriginal ==
    \A n \in InvertedHandles :
        LET m == Tables(snaps[snaps[n].a])
            inv == Tables(snaps[n])
        IN IF snaps[snaps[n].a].view = "primary"
           THEN /\ LastWinsInverse(m.classes, inv.classes)
                /\ LastWinsInverse(m.fields, inv.fields)
                /\ LastWinsInverse(m.methods, inv.methods)
           ELSE /\ Swapped(m.classes) \subseteq Entries(inv.classes)
                /\ Swapped(m.fields) \subseteq Entries(inv.fields)
                /\ Swapped(m.methods) \subseteq Entries(inv.methods)

\* a snapshot with two originals renamed to the same class was inverted
C9_Witness ==
    \E n \in InvertedHandles :
        /\ snaps[snaps[n].a].view = "primary"
        /\ LET m == Tables(snaps[snaps[n].a])
           IN \E i, j \in DOMAIN m.classes :
                  i # j /\ m.classes[i][2] = m.classes[j][2]

(***************************************************************************)
(* Properties of the lazily filled inverse (SpecRace).                     *)
(***************************************************************************)
\* C10: whatever the interleaving of the readers' first calls of inverted()
\* on the shared snapshot, no call fails, and a call that has returned
\* returned the inverse of the primary tables.
C10_NoReaderFails ==
    \A r \in DOMAIN readers :
        /\ readers[r].pc # "panicked"
        /\ readers[r].pc = "done" =>
              InnerEq(readers[r].result, InnerInverted(boxes[1].primary))

\* the readers that hold the cell between their swap to LOCK and the release
Fillers == {r \in DOMAIN readers : readers[r].pc \in {"store", "release"}}

\* C11: whatever the interleaving, the cell is filled by at most one reader,
\* a filled cell holds the inverse of the primary tables and never changes
\* again, and every reader that has returned observed that inverse.
C11_FilledOnceAndStable ==
    [][/\ Cardinality(Fillers) <= 1
       /\ Fillers # {} => boxes[1].state = "LOCK"
       /\ boxes[1].state = "SOME" =>
             /\ boxes'[1] = boxes[1]
             /\ InnerEq(boxes[1].inner, InnerInverted(boxes[1].primary))
       /\ \A r \in DOMAIN readers :
             readers'[r].pc = "done" =>
                 InnerEq(readers'[r].result, InnerInverted(boxes[1].primary))]_vars

\* two readers computed the inverse: one has filled the cell and returned,
\* the other still holds its own copy, which its fill will discard
C11_Witness ==
    /\ boxes[1].state = "SOME"
    /\ boxes[1].primary.classes # <<>>
    /\ \E r, q \in DOMAIN readers :
          /\ readers[r].pc = "done"
          /\ readers[q].pc = "fill"

(***************************************************************************)
(* Properties of the builder (SpecBuild).                                  *)
(***************************************************************************)
\* the positions in history of the set calls of one kind for key k
CallsFor(kind, k) ==
    {i \in DOMAIN history : history[i][1] = kind /\ history[i][2] = k}
FirstCall(kind, k) == CHOOSE i \in CallsFor(kind, k) : \A j \in CallsFor(kind, k) : i <= j
LastCall(kind, k) == CHOOSE i \in CallsFor(kind, k) : \A j \in CallsFor(kind, k) : j <= i

\* the table holds one entry per key set, with the value of the latest set for
\* that key, in the order in which the keys were first set
TableFollowsCalls(kind, t) ==
    /\ \A i, j \in DOMAIN t : t[i][1] = t[j][1] => i = j
    /\ Keys(t) = {history[i][2] : i \in {c \in DOMAIN history : history[c][1] = kind}}
    /\ \A i \in DOMAIN t : t[i][2] = history[LastCall(kind, t[i][1])][3]
    /\ \A i, j \in DOMAIN t :
          i < j => FirstCall(kind, t[i][1]) < FirstCall(kind, t[j][1])

\* C12: after any sequence of set_remapped_class / set_field_name /
\* set_method_name calls each table holds exactly one entry per distinct key,
\* with the value of the most recent set for that key, and iterates in the
\* order of first insertion.
C12_LastWriteWinsInFirstInsertionOrder ==
    pc = "calls" =>
        /\ TableFollowsCalls("class", builder.classes)
        /\ TableFollowsCalls("field", builder.field_names)
        /\ TableFollowsCalls("method", builder.method_names)

\* a class was set, another class was set, then the first was set again to a
\* different value
C12_Witness ==
    /\ pc = "calls"
    /\ Len(history) = 3
    /\ history[1][1] = "class" /\ history[2][1] = "class" /\ history[3][1] = "class"
    /\ history[1][2] = history[3][2]
    /\ history[1][2] # history[2][2]
    /\ history[1][3] # history[3][3]

(***************************************************************************)
(* Properties of lookups (SpecEval).                                       *)
(***************************************************************************)
\* the class table and the member entries of the mapping the call was made on
CallClasses == IF call.on = "builder" THEN builder.classes ELSE Tables(snaps[1]).classes
ClassImage(c) ==
    IF \E i \in DOMAIN CallClasses : CallClasses[i][1] = c
    THEN CallClasses[CHOOSE i \in DOMAIN CallClasses : CallClasses[i][1] = c][2]
    ELSE c
TypeImage(t, r) ==
    /\ r.kind = t.kind /\ r.prim = t.prim /\ r.dimensions = t.dimensions
    /\ r.ref = IF t.ref = "" THEN "" ELSE ClassImage(t.ref)

\* what the mapping stores for a member key: the snapshot stores the renamed
\* entity, the builder the name it resolves against its class table
StoredField(k, r) ==
    IF call.on = "builder"
    THEN \E i \in DOMAIN builder.field_names :
            /\ builder.field_names[i][1] = k
            /\ r.name = builder.field_names[i][2]
            /\ r.declaring_type = ClassImage(k.declaring_type)
    ELSE <<k, r>> \in Entries(Tables(snaps[1]).fields)
StoredMethod(k, r) ==
    IF call.on = "builder"
    THEN \E i \in DOMAIN builder.method_names :
            /\ builder.method_names[i][1] = k
            /\ r.name = builder.method_names[i][2]
            /\ r.declaring_type = ClassImage(k.declaring_type)
    ELSE <<k, r>> \in Entries(Tables(snaps[1]).methods)
HasStored(k) ==
    IF call.fn = "remap_field"
    THEN k \in Keys(IF call.on = "builder" THEN builder.field_names
                    ELSE Tables(snaps[1]).fields)
    ELSE k \in Keys(IF call.on = "builder" THEN builder.method_names
                    ELSE Tables(snaps[1]).methods)

\* C13: remap_class, remap_field and remap_method always return a value: the
\* stored renamed entity when the key has an entry, otherwise the key itself
\* with the member name unchanged and its nested class references replaced
\* by their remap_class images.
C13_RemapIsTotal ==
    /\ call.fn = "remap_class" => call.ret = ClassImage(call.arg)
    /\ call.fn = "remap_field" =>
          IF HasStored(call.arg) THEN StoredField(call.arg, call.ret)
          ELSE /\ call.ret.name = call.arg.name
               /\ call.ret.declaring_type = ClassImage(call.arg.declaring_type)
    /\ call.fn = "remap_method" =>
          IF HasStored(call.arg) THEN StoredMethod(call.arg, call.ret)
          ELSE /\ call.ret.name = call.arg.name
               /\ call.ret.declaring_type = ClassImage(call.arg.declaring_type)
               /\ TypeImage(call.arg.signature.return_type,
                            call.ret.signature.return_type)
               /\ Len(call.ret.signature.parameter_types)
                     = Len(call.arg.signature.parameter_types)
               /\ \A i \in DOMAIN call.arg.signature.parameter_types :
                     TypeImage(call.arg.signature.parameter_types[i],
                               call.ret.signature.parameter_types[i])

\* a method key without an entry was looked up in a mapping that renames a
\* class of its signature
C13_Witness ==
    /\ call.fn = "remap_method"
    /\ ~HasStored(call.arg)
    /\ call.ret.signature # call.arg.signature
    /\ call.ret.name = call.arg.name

(***************************************************************************)
(* Properties of transform (Spec).                                         *)
(***************************************************************************)
\* the handle transform was called on to make handle n
TransformSource(n) == Tables(snaps[snaps[n].a])

\* C14: transform(m, t) has exactly the original keys of m in each of the
\* classes, fields and methods tables, whatever the transformer returns.
C14_TransformKeepsOriginalKeys ==
    \A n \in DOMAIN snaps :
        snaps[n].op = "transform" =>
            /\ Keys(Tables(snaps[n]).classes) = Keys(TransformSource(n).classes)
            /\ Keys(Tables(snaps[n]).fields) = Keys(TransformSource(n).fields)
            /\ Keys(Tables(snaps[n]).methods) = Keys(TransformSource(n).methods)

\* a transform changed a renamed class and left another entry as it was
C14_Witness ==
    \E n \in DOMAIN snaps :
        /\ snaps[n].op = "transform"
        /\ Len(TransformSource(n).classes) = 2
        /\ \E i, j \in DOMAIN TransformSource(n).classes :
              /\ Tables(snaps[n]).classes[i] # TransformSource(n).classes[i]
              /\ Tables(snaps[n]).classes[j] = TransformSource(n).classes[j]

(***************************************************************************)
(* Properties of transform_packages (SpecPackages).                        *)
(***************************************************************************)
\* the renamed class r2 is the renamed class r with its package run through
\* func: same simple name, the new package when func has one for the old
\* package and then no leading '/', unchanged otherwise
PackageFollows(func, r, r2) ==
    IF \E e \in Entries(func) : e[1] = split_name(r)[1]
    THEN \E e \in Entries(func) :
            /\ e[1] = split_name(r)[1]
            /\ split_name(r2)[2] = split_name(r)[2]
            /\ split_name(r2)[1] = e[2]
            /\ r2[1] # "/"
    ELSE r2 = r

\* C15: transform_packages(m, f) keeps every original key; every renamed
\* class keeps its simple name and gets the package f gives for its old
\* package (no leading '/' for the empty package), or is unchanged when f
\* gives nothing; members keep their renamed names, and their renamed
\* declaring types and signatures follow the new class table.
C15_TransformPackages ==
    \A n \in DOMAIN snaps :
        snaps[n].op = "transform_packages" =>
            LET m == Tables(snaps[snaps[n].a])
                r == Tables(snaps[n])
            IN /\ Keys(r.classes) = Keys(m.classes)
               /\ Keys(r.fields) = Keys(m.fields)
               /\ Keys(r.methods) = Keys(m.methods)
               /\ \A e \in Entries(m.classes), e2 \in Entries(r.classes) :
                     e2[1] = e[1] => PackageFollows(snaps[n].b, e[2], e2[2])
               /\ \A e \in Entries(m.fields), e2 \in Entries(r.fields) :
                     e2[1] = e[1] =>
                        /\ e2[2].name = e[2].name
                        /\ e2[2].declaring_type = remap_class(r, e[1].declaring_type)
               /\ \A e \in Entries(m.methods), e2 \in Entries(r.methods) :
                     e2[1] = e[1] =>
                        /\ e2[2].name = e[2].name
                        /\ e2[2].declaring_type = remap_class(r, e[1].declaring_type)
                        /\ SignatureFollowsClasses(r, e[1].signature, e2[2].signature)

\* a class was moved from package p to the default package, and a method
\* declared in it was carried along
C15_Witness ==
    \E n \in DOMAIN snaps :
        /\ snaps[n].op = "transform_packages"
        /\ \E e \in Entries(Tables(snaps[snaps[n].a]).classes),
              e2 \in Entries(Tables(snaps[n]).classes) :
              /\ e2[1] = e[1]
              /\ split_name(e[2])[1] = <<"p">>
              /\ split_name(e2[2])[1] = <<>>
              /\ \E md \in Entries(Tables(snaps[n]).methods) :
                    /\ md[1].declaring_type = e[1]
                    /\ md[2].declaring_type = e2[2]
                    /\ md[2].name # md[1].name

(***************************************************************************)
(* Properties of the descriptor parsers (SpecDescriptor).                  *)
(***************************************************************************)
\* the descriptor rebuilt from the structure of a parsed value
Rebuilt(parser, value) ==
    IF parser = "MethodSignature" THEN SignatureDescriptor(value)
    ELSE Descriptor(value)

\* C17: a text accepted by the parser of PrimitiveType, ReferenceType,
\* ArrayType, TypeDescriptor or MethodSignature was consumed entirely, and
\* the descriptor of the parsed value is exactly that text.
C17_DescriptorRoundTrip ==
    (call.fn = "parse_text" /\ call.ret.ok) =>
        /\ call.ret.pos = Len(call.arg)
        /\ call.ret.descriptor = call.arg
        /\ Rebuilt(call.on, call.ret.value) = call.arg

\* a signature with an array parameter was accepted
C17_Witness ==
    /\ call.fn = "parse_text"
    /\ call.on = "MethodSignature"
    /\ call.ret.ok
    /\ Len(call.ret.value.parameter_types) = 1
    /\ call.ret.value.parameter_types[1].kind = "Array"

(***************************************************************************)
(* Properties of maybe_transform_class (SpecMapClass).                     *)
(***************************************************************************)
TypeRefs(t) == IF t.kind = "Primitive" \/ t.prim # "" THEN {} ELSE {t.ref}
SignatureRefs(sg) ==
    TypeRefs(sg.return_type)
        \cup UNION {TypeRefs(sg.parameter_types[i]) : i \in DOMAIN sg.parameter_types}
\* the reference types nested in the receiver of the call
NestedRefs ==
    IF call.on = "FieldData" THEN {call.arg.declaring_type}
    ELSE IF call.on = "MethodData"
    THEN {call.arg.declaring_type} \cup SignatureRefs(call.arg.signature)
    ELSE SignatureRefs(call.arg)

\* C18: maybe_transform_class of FieldData, MethodData and MethodSignature
\* returns nothing whenever the class-renaming function returns nothing for
\* every nested reference type, and returns a rebuilt value only when the
\* declaring type, a parameter type or the return type changed.
C18_UnchangedReturnsNothing ==
    call.fn = "maybe_transform_class" =>
        /\ (\A c \in NestedRefs : ~Has(call.classes, c)) => call.ret = None
        /\ call.ret # None => call.ret[1] # call.arg

(***************************************************************************)
(* Properties of the text dialects (SpecRoundTrip, SpecLines).             *)
(***************************************************************************)
\* C16: for each dialect and any frozen mapping m, parsing the lines the
\* dialect's writer produces for m yields a mapping equal to m, also when m
\* has a field or method whose declaring class has no class entry.
C16_ParseOfWriteIsEqual ==
    (pc = "parsing" /\ parse.format \in Formats) =>
        /\ parse.status \in {"running", "finished"}
        /\ parse.status = "finished" => InnerEq(Tables(snaps[2]), Tables(snaps[1]))

\* C19: the error of a rejected line carries the 0-based offset of the
\* failure within the line, an optional reason, the raw line text, and the
\* 1-based number of the input line.
C19_ErrorCarriesPosition ==
    parse.error # None =>
        LET e == parse.error[1]
        IN /\ e.line = parse.lines[parse.line]
           /\ e.index \in 0..Len(e.line)
           /\ e.reason = None \/ Len(e.reason) = 1
           /\ \E k \in DOMAIN e \ {"line", "index", "reason"} : e[k] = parse.line

\* C20: parse_lines returns a frozen mapping or a parse error for every
\* sequence of lines, also when names contain '.'; it never ends fatally.
C20_ParseLinesNeverPanics ==
    parse.format \in Formats => parse.status # "panicked"

(***************************************************************************)
(* Properties of the compact dialect's member lines (SpecCompact).         *)
(***************************************************************************)
\* the whitespace-separated tokens of a line
RECURSIVE Tokens(_)
Tokens(text) ==
    IF text = <<>> THEN <<>>
    ELSE IF Head(text) \in Whitespace THEN Tokens(Tail(text))
    ELSE LET stop == take_until(text, 0, Is(Whitespace))
         IN <<SubSeq(text, 1, stop)>> \o Tokens(SubSeq(text, stop + 1, Len(text)))
\* the tokens of the lines processed so far
Processed == [i \in 1..parse.line |-> Tokens(parse.lines[i])]
\* line i is the last processed line with its token count and its tokens
\* before the renamed name
LastOfKey(i) ==
    \A j \in (i + 1)..parse.line :
        \/ Len(Processed[j]) # Len(Processed[i])
        \/ SubSeq(Processed[j], 1, Len(Processed[j]) - 1)
              # SubSeq(Processed[i], 1, Len(Processed[i]) - 1)

\* C21: in the compact dialect a three-token line makes a field entry and a
\* four-token line makes a method entry; a field and a method of the same
\* class and name, and two methods that differ only in signature, are
\* distinct entries, none overwriting another: each table has one entry per
\* distinct key, with the renamed name of the last line for that key.
C21_CompactMembersDistinct ==
    (parse.format = "csrg" /\ parse.status # "failed") =>
        /\ \A i \in 1..parse.line :
              LET tk == Processed[i]
              IN /\ (Len(tk) = 3 /\ LastOfKey(i)) =>
                        /\ Has(builder.field_names, FieldData(tk[2], tk[1]))
                        /\ Get(builder.field_names, FieldData(tk[2], tk[1])) = tk[3]
                 /\ (Len(tk) = 4 /\ LastOfKey(i)) =>
                        LET md == MethodData(tk[2], tk[1],
                                             ParseText("MethodSignature", tk[3]).value)
                        IN /\ Has(builder.method_names, md)
                           /\ Get(builder.method_names, md) = tk[4]
        /\ Len(builder.field_names)
              = Cardinality({i \in 1..parse.line : Len(Processed[i]) = 3 /\ LastOfKey(i)})
        /\ Len(builder.method_names)
              = Cardinality({i \in 1..parse.line : Len(Processed[i]) = 4 /\ LastOfKey(i)})
        /\ builder.classes = <<>>
\* a field and two methods of class o, all named a, are three entries
C21_Witness ==
    /\ parse.format = "csrg"
    /\ parse.status = "finished"
    /\ Len(builder.field_names) = 1
    /\ Len(builder.method_names) = 2
    /\ \A e \in Entries(builder.field_names) \cup Entries(builder.method_names) :
          e[1].name = <<"a">> /\ e[1].declaring_type = <<"o">>

(***************************************************************************)
(* Properties of array types (SpecArray).                                  *)
(***************************************************************************)
\* text is count copies of unit followed by rest
Repeated(text, unit, count, rest) ==
    /\ Len(text) = count * Len(unit) + Len(rest)
    /\ \A i \in 1..(count * Len(unit)) : text[i] = unit[((i - 1) % Len(unit)) + 1]
    /\ SubSeq(text, count * Len(unit) + 1, Len(text)) = rest
\* text is first followed by count copies of unit
Followed(text, first, unit, count) ==
    /\ Len(text) = Len(first) + count * Len(unit)
    /\ SubSeq(text, 1, Len(first)) = first
    /\ \A i \in 1..(count * Len(unit)) :
          text[Len(first) + i] = unit[((i - 1) % Len(unit)) + 1]

\* C22: for d >= 1 and a non-array element type e, ArrayType::new(d, e) has
\* the descriptor of d '[' characters followed by e's descriptor, and the
\* internal name of e's internal name followed by d copies of "[]"; d = 0 is
\* rejected.
C22_ArrayDescriptorAndName ==
    call.fn \in {"ArrayType::new", "internal_name"} =>
        /\ call.dimensions = 0 => call.result.status = "panicked"
        /\ (call.dimensions >= 1 /\ call.element_type.kind # "Array") =>
              /\ call.result.status = "ok"
              /\ Repeated(call.result.descriptor, <<"[">>, call.dimensions,
                          Descriptor(call.element_type))
              /\ call.fn = "internal_name" =>
                    Followed(call.name,
                             IF call.element_type.kind = "Primitive"
                             THEN PrimitiveName(call.element_type.prim)
                             ELSE call.element_type.ref,
                             <<"[", "]">>, call.dimensions)
\* 2 and class X give "[[LX;" and "X[][]"
C22_Witness ==
    /\ call.fn = "internal_name"
    /\ call.dimensions = 2
    /\ call.element_type = Reference(<<"X">>)
    /\ call.result.descriptor = <<"[", "[", "L", "X", ";">>
    /\ call.name = <<"X", "[", "]", "[", "]">>

(***************************************************************************)
(* Entries kept and lost by chain (SpecChain).                             *)
(***************************************************************************)
\* the keys chain gives to second's entries whose original is no output of
\* first
NetNewFieldKeys(a, b) == {OldestField(a, k) : k \in Keys(b.fields) \ Values(a.fields)}
NetNewMethodKeys(a, b) == {OldestMethod(a, k) : k \in Keys(b.methods) \ Values(a.methods)}

InvertsInverted ==
    /\ Len(snaps') = Len(snaps) + 1
    /\ snaps'[Len(snaps')].op = "inverted"
    /\ snaps[snaps'[Len(snaps')].a].view = "inverted"

\* C24: inverted() on a handle that is the inverted view of a snapshot m
\* returns m's primary tables and computes no inverse (the heap is left as it
\* is); and every handle made through clone, frozen and inverted refers to
\* its owner's primary tables or to its owner's filled inverse cell, so the
\* third branch of inverted() is never reached.
C24_InvertedViewGivesPrimary ==
    /\ [][InvertsInverted =>
            /\ boxes' = boxes
            /\ snaps'[Len(snaps')].view = "primary"
            /\ snaps'[Len(snaps')].owner = snaps[snaps'[Len(snaps')].a].owner]_vars
    /\ [](\A n \in DOMAIN snaps :
            \/ snaps[n].view = "primary"
            \/ snaps[n].view = "inverted" /\ boxes[snaps[n].owner].state = "SOME")
\* a snapshot was inverted and the inverted handle inverted again
C24_Witness ==
    \E n \in DOMAIN snaps :
        /\ snaps[n].op = "inverted"
        /\ snaps[snaps[n].a].op = "inverted"
        /\ snaps[snaps[n].a].view = "inverted"
        /\ snaps[n].view = "primary"
        /\ Tables(snaps[n]).classes # <<>>

(***************************************************************************)
(* Properties of remap_type (SpecRemapType).                               *)
(***************************************************************************)
\* C25: remap_type leaves a primitive type unchanged, maps a reference type
\* c to remap_class(c), and maps an array type to an array of the same
\* dimension count whose element is the remapped element; the descriptor the
\* result stores is the canonical descriptor of those parts.
C25_RemapTypeByParts ==
    call.fn = "remap_type" =>
        LET o == call.original.value
            r == call.ret.value
        IN /\ o.kind = "Primitive" => r = o
           /\ o.kind = "Reference" => r = Reference(remap_class(call.m, o.ref))
           /\ o.kind = "Array" =>
                 /\ r.kind = "Array"
                 /\ r.dimensions = o.dimensions
                 /\ r.prim = o.prim
                 /\ r.ref = IF o.prim # "" THEN o.ref ELSE remap_class(call.m, o.ref)
           /\ Repeated(call.ret.descriptor, <<"[">>, r.dimensions,
                       IF r.prim # "" THEN <<descriptor_str(r.prim)>>
                       ELSE (<<"L">> \o r.ref) \o <<";">>)
\* the array type [[LX; was remapped by a mapping that renames X to Y
C25_Witness ==
    /\ call.fn = "remap_type"
    /\ call.original.descriptor = <<"[", "[", "L", "X", ";">>
    /\ remap_class(call.m, <<"X">>) = <<"Y">>
    /\ call.ret.descriptor = <<"[", "[", "L", "Y", ";">>
    /\ call.ret.value = Array(2, Reference(<<"Y">>))

(***************************************************************************)
(* Snapshots never change (SpecFrame).                                     *)
(***************************************************************************)
\* C26: once a snapshot has been produced by frozen(), its three tables,
\* and those of its clones and of its inverse, are never changed by a later
\* operation: set_*, clear_* or retain_* on the builder it came from, or
\* chain, transform, rebuild or inverted applied to the snapshot.
C26_SnapshotsNeverChange ==
    [][/\ \A n \in DOMAIN snaps :
             /\ n \in DOMAIN snaps'
             /\ snaps'[n] = snaps[n]
             /\ TablesIn(boxes', snaps'[n]) = TablesIn(boxes, snaps[n])
       /\ \A k \in DOMAIN boxes :
             /\ k \in DOMAIN boxes'
             /\ boxes'[k].primary = boxes[k].primary
             /\ boxes[k].state = "SOME" => boxes'[k] = boxes[k]]_vars
\* the builder was changed after it was frozen, and the snapshot inverted
C26_Witness ==
    /\ pc = "frame"
    /\ Len(snaps) = 2
    /\ snaps[2].op = "inverted"
    /\ Tables(snaps[1]).classes # <<>>
    /\ builder.classes = <<>>
    /\ builder.field_names # <<>>

(***************************************************************************)
(* The builder against its snapshot (SpecEval).                            *)
(***************************************************************************)
\* the result of a get_remapped_* lookup: the value, or nothing
Lookup(t, k) == IF Has(t, k) THEN Some(Get(t, k)) ELSE None

\* C27: for any builder state and key, get_remapped_class, _field and
\* _method on the builder return what the same lookup returns on
\* builder.frozen(), and classes(), fields() and methods() of the builder
\* yield the same (original, renamed) pairs in the same order as the
\* snapshot's.
C27_BuilderAgreesWithSnapshot ==
    pc = "eval_frozen" =>
        LET b == BuilderTables(builder)
            f == Tables(snaps[1])
        IN /\ \A k \in ClassNames : Lookup(b.classes, k) = Lookup(f.classes, k)
           /\ \A k \in LookupFieldKeys : Lookup(b.fields, k) = Lookup(f.fields, k)
           /\ \A k \in LookupMethodKeys : Lookup(b.methods, k) = Lookup(f.methods, k)
           /\ b.classes = f.classes
           /\ b.fields = f.fields
           /\ b.methods = f.methods
\* the builder renames a class and a member declared in it, so the renamed
\* member is computed from the class table on both sides
C27_Witness ==
    /\ pc = "eval_frozen"
    /\ \E e \in Entries(builder.field_names) \cup Entries(builder.method_names) :
          /\ Has(builder.classes, e[1].declaring_type)
          /\ Get(builder.classes, e[1].declaring_type) # e[1].declaring_type
    /\ \E e \in Entries(Tables(snaps[1]).fields) \cup Entries(Tables(snaps[1]).methods) :
          e[2].declaring_type # e[1].declaring_type

(***************************************************************************)
(* C28: the empty mapping is a two-sided identity for chain: m.chain of    *)
(* the empty mapping and the empty mapping's chain of m are both equal to  *)
(* m, for every frozen mapping m, and chain!() without arguments is the    *)
(* empty mapping.                                                          *)
(***************************************************************************)
IsEmptyMapping(s) == s.op = "chain!" /\ s.a = 0
Chained(s) == s.op \in {"chain", "chain!"} /\ s.b # 0
C28_EmptyIsChainIdentity ==
    \A n \in DOMAIN snaps :
        /\ IsEmptyMapping(snaps[n]) =>
              InnerEq(Tables(snaps[n]), Tables(empty("empty")))
              /\ InnerSize(Tables(snaps[n])) = 0
        /\ Chained(snaps[n]) /\ IsEmptyMapping(snaps[snaps[n].b]) =>
              /\ InnerEq(Tables(snaps[n]), Tables(snaps[snaps[n].a]))
              /\ Tables(snaps[n]) = Tables(snaps[snaps[n].a])
        /\ Chained(snaps[n]) /\ IsEmptyMapping(snaps[snaps[n].a]) =>
              /\ InnerEq(Tables(snaps[n]), Tables(snaps[snaps[n].b]))
              /\ Tables(snaps[n]) = Tables(snaps[snaps[n].b])
C28_Witness ==
    \E n \in DOMAIN snaps, k \in DOMAIN snaps :
        /\ Chained(snaps[n]) /\ IsEmptyMapping(snaps[snaps[n].b])
        /\ Chained(snaps[k]) /\ IsEmptyMapping(snaps[snaps[k].a])
        /\ ~IsEmptyMapping(snaps[snaps[k].b])
        /\ ~IsEmptyMapping(snaps[snaps[n].a])
        /\ Tables(snaps[snaps[n].a]).classes # <<>>
        /\ Tables(snaps[snaps[n].a]).fields # <<>>

(***************************************************************************)
(* C29: a line for which the line processor returns an error leaves the    *)
(* processor as it was before the line: the accumulated mapping, the       *)
(* package table and, in the tab dialect, the current class are unchanged. *)
(***************************************************************************)
LineRejected == parse.status = "running" /\ parse'.status = "failed"
C29_RejectedLineAddsNothing ==
    [][LineRejected =>
          /\ builder' = builder
          /\ parse'.packages = parse.packages
          /\ parse'.current_class = parse.current_class]_vars

(***************************************************************************)
(* C30: after any sequence of insert and get_or_insert_with calls on an    *)
(* LruCache of capacity c >= 0 the cache stores at most c entries, no      *)
(* assertion of cleanup has failed, and the key of the most recent insert  *)
(* is present with the value inserted.                                     *)
(***************************************************************************)
C30_CacheWithinCapacity ==
    call.fn = "LruCache" =>
        /\ Len(call.map) <= call.capacity
        /\ call.status = "ok"
        /\ call.last.op = "insert" =>
              Has(call.map, call.last.key) /\ Get(call.map, call.last.key) = call.last.value

====
